---- MODULE Spec2Model ----
(***************************************************************************)
(* UI-Smith agent pipeline: the orchestrator (src/src/agents/              *)
(* orchestrator.ts) and the stages it sequences: UI architect              *)
(* (ui-architect.ts), design critic (design-critic.ts), accessibility      *)
(* agent (accessibility-agent.ts) and export engineer.                     *)
(*                                                                         *)
(* Conventions.  An optional value (a field that may be undefined) is a    *)
(* sequence of length 0 or 1.  A props bag is a function from property     *)
(* names to values; a given property name always carries the same type of  *)
(* value (flag, string, list).  Component indexes are 0-based as in the    *)
(* source; sequences are 1-based.  A uuid is a fresh natural number.       *)
(***************************************************************************)
EXTENDS Integers, Sequences, FiniteSets, TLC

VARIABLES
    options,        \* AgentOrchestrator.options
    context,        \* AgentOrchestrator.context: conversationId, currentUI, history
    messages,       \* AgentOrchestrator.messages
    uuidCounter,    \* number of uuids issued so far by uuidv4()
    pc,             \* position of the processRequest call in flight
    entry,          \* public method that started the last call
    userMessage,    \* argument of the call in flight
    localUI,        \* processRequest's local variable currentUI
    pending,        \* response of the stage being awaited
    result,         \* the PipelineResult being built / last returned
    calls,          \* stages invoked by the last call, in order
    returns,        \* stages that handed control back during the last call, in order
    logStart,       \* length of messages when the last call started
    before,         \* context.currentUI when the last call started
    requests,       \* number of public calls made so far
    resets,         \* number of reset() calls made so far
    okRuns,         \* runs returned with success = true since construction / reset
    probe           \* harness: the input handed to the stages or to the export
                    \* tools, and their outputs for it

vars == <<options, context, messages, uuidCounter, pc, entry, userMessage,
          localUI, pending, result, calls, returns, logStart, before, requests,
          resets, okRuns, probe>>

-----------------------------------------------------------------------------
(* Bounds *)

MaxRequests == 2
MaxResets == 1
MaxProbeLen == 3
MaxRepeat == 12
MaxClock == 2

-----------------------------------------------------------------------------
(* Optional values and strings *)

None == <<>>
Some(x) == <<x>>
IsSome(o) == Len(o) = 1
Get(o) == o[1]

\* String.prototype.includes
Includes(s, k) ==
    \E i \in 1..(Len(s) - Len(k) + 1) : SubSeq(s, i, i + Len(k) - 1) = k

LowerOf ==
    [A |-> "a", B |-> "b", C |-> "c", D |-> "d", E |-> "e", F |-> "f", G |-> "g",
     H |-> "h", I |-> "i", J |-> "j", K |-> "k", L |-> "l", M |-> "m", N |-> "n",
     O |-> "o", P |-> "p", Q |-> "q", R |-> "r", S |-> "s", T |-> "t", U |-> "u",
     V |-> "v", W |-> "w", X |-> "x", Y |-> "y", Z |-> "z"]

UpperOf ==
    [a |-> "A", b |-> "B", c |-> "C", d |-> "D", e |-> "E", f |-> "F", g |-> "G",
     h |-> "H", i |-> "I", j |-> "J", k |-> "K", l |-> "L", m |-> "M", n |-> "N",
     o |-> "O", p |-> "P", q |-> "Q", r |-> "R", s |-> "S", t |-> "T", u |-> "U",
     v |-> "V", w |-> "W", x |-> "X", y |-> "Y", z |-> "Z"]

LowerChar(c) == IF c \in DOMAIN LowerOf THEN LowerOf[c] ELSE c

\* String.prototype.toLowerCase
RECURSIVE toLowerCase(_)
toLowerCase(s) ==
    IF Len(s) = 0 THEN ""
    ELSE LowerChar(SubSeq(s, 1, 1)) \o toLowerCase(SubSeq(s, 2, Len(s)))

\* String.prototype.startsWith
StartsWith(s, p) == Len(s) >= Len(p) /\ SubSeq(s, 1, Len(p)) = p

\* Object spread { ...a, ...b }
Merge(a, b) ==
    [k \in (DOMAIN a) \cup (DOMAIN b) |-> IF k \in DOMAIN b THEN b[k] ELSE a[k]]

\* JS truthiness of props[k], by the type the property carries
Flag(p, k) == k \in DOMAIN p /\ p[k] = TRUE
Text(p, k) == k \in DOMAIN p /\ p[k] # ""
Present(p, k) == k \in DOMAIN p

RECURSIVE SeqSum(_)
SeqSum(s) == IF Len(s) = 0 THEN 0 ELSE Head(s) + SeqSum(Tail(s))

Max(a, b) == IF a >= b THEN a ELSE b
Min(a, b) == IF a <= b THEN a ELSE b

\* Array.prototype.flatMap over a sequence of sequences
RECURSIVE Flatten(_)
Flatten(ss) == IF Len(ss) = 0 THEN <<>> ELSE Head(ss) \o Flatten(Tail(ss))

\* JSON.parse(JSON.stringify(v)): every value of the model is plain JSON data
\* (no undefined members, no functions, no dates), on which the round trip
\* yields a structurally equal value.
JsonClone(v) == v

\* Variant of JsonCloneAliases: a copy of the top-level object only, which still
\* references the components array of its argument.
JsonCloneAliasesComponents == {"components"}

\* The parts of its argument that the result of JSON.parse(JSON.stringify(v))
\* still references: none, JSON.parse allocates every object and array anew.
JsonCloneAliases == {}

\* A specification as its holder sees it after writes were made through a clone
\* of it: the parts the clone still references show the writes.
SeenAfter(original, written) ==
    IF "spec" \in JsonCloneAliases THEN written
    ELSE IF "components" \in JsonCloneAliases
    THEN [original EXCEPT !.components = written.components]
    ELSE original

-----------------------------------------------------------------------------
(* UI architect: src/src/agents/ui-architect.ts *)

modifyKeywords ==
    {"change", "update", "modify", "make it", "add to",
     "remove", "improve", "fix", "adjust", "tweak",
     "instead", "replace", "bigger", "smaller", "more"}

createKeywords ==
    {"create", "build", "make", "generate", "design",
     "new", "start", "begin", "i want", "i need"}

hasModifyKeyword(lowerMessage) ==
    \E k \in modifyKeywords : Includes(lowerMessage, k)

hasCreateKeyword(lowerMessage) ==
    \E k \in createKeywords : Includes(lowerMessage, k)

\* Variant of analyzeRequestType: modify wording wins whether or not a prior
\* specification exists.
analyzeRequestTypeWordingFirst(message, ctx) ==
    LET lowerMessage == toLowerCase(message) IN
    IF hasModifyKeyword(lowerMessage) THEN "modify"
    ELSE IF hasCreateKeyword(lowerMessage) \/ ~IsSome(ctx.currentUI) THEN "create"
    ELSE "modify"

\* Variant of analyzeRequestType: create wording is looked at first.
analyzeRequestTypeCreateFirst(message, ctx) ==
    LET lowerMessage == toLowerCase(message) IN
    IF hasCreateKeyword(lowerMessage) \/ ~IsSome(ctx.currentUI) THEN "create"
    ELSE "modify"

analyzeRequestType(message, ctx) ==
    LET lowerMessage == toLowerCase(message) IN
    IF hasModifyKeyword(lowerMessage) /\ IsSome(ctx.currentUI) THEN "modify"
    ELSE IF hasCreateKeyword(lowerMessage) \/ ~IsSome(ctx.currentUI) THEN "create"
    ELSE IF IsSome(ctx.currentUI) THEN "modify" ELSE "create"

componentKeywords ==
    [button      |-> {"button", "cta", "action", "click", "submit"},
     card        |-> {"card", "container", "box", "section", "panel"},
     pricing     |-> {"pricing", "plans", "tiers", "subscription", "cost"},
     dashboard   |-> {"dashboard", "admin", "panel", "analytics", "stats"},
     chart       |-> {"chart", "graph", "data", "visualization", "metrics"},
     form        |-> {"form", "input", "submit", "contact", "sign up", "login"},
     modal       |-> {"modal", "dialog", "popup", "overlay", "confirm"},
     testimonial |-> {"testimonial", "review", "quote", "feedback", "customer"}]

styleKeywords ==
    {"modern", "minimal", "clean", "professional", "vibrant", "dark", "light"}

\* The keyword list is only ever queried with includes(), so it is a set.
extractKeywords(description) ==
    LET lowerDesc == toLowerCase(description) IN
    {key \in DOMAIN componentKeywords :
        \E term \in componentKeywords[key] : Includes(lowerDesc, term)}
    \cup {"style:" \o style : style \in {st \in styleKeywords : Includes(lowerDesc, st)}}

\* Variant of createButtonSpec: the Button has no text.
createButtonSpecUnnamed(description) ==
    [name  |-> "Button",
     props |-> [variant |-> "solid", color |-> "primary", size |-> "lg"]]

createButtonSpec(description) ==
    LET lowerDesc == toLowerCase(description)
        text == IF Includes(lowerDesc, "contact") THEN "Contact Us"
                ELSE IF Includes(lowerDesc, "sign up") THEN "Sign Up"
                ELSE IF Includes(lowerDesc, "learn more") THEN "Learn More"
                ELSE IF Includes(lowerDesc, "try") THEN "Try for Free"
                ELSE "Get Started"
    IN  [name  |-> "Button",
         props |-> [text |-> text, variant |-> "solid", color |-> "primary", size |-> "lg"]]

createCardSpec(description) ==
    LET lowerDesc == toLowerCase(description)
        variant == IF Includes(lowerDesc, "modern") \/ Includes(lowerDesc, "glass") THEN "glass"
                   ELSE IF Includes(lowerDesc, "gradient") THEN "gradient"
                   ELSE "elevated"
    IN  [name  |-> "Card",
         props |-> [variant |-> variant, title |-> "Welcome",
                    content |-> "Your content goes here. Describe your product or service.",
                    hoverable |-> TRUE, size |-> "lg"]]

\* Variant of createPricingTableSpec: a table without tiers.
createPricingTableSpecNoTiers ==
    [name  |-> "PricingTable",
     props |-> [headline |-> "Choose Your Plan",
                subheadline |-> "Select the perfect plan for your needs",
                tiers |-> <<>>,
                showBillingToggle |-> TRUE,
                yearlyDiscount |-> 20]]

createPricingTableSpec ==
    [name  |-> "PricingTable",
     props |-> [headline |-> "Choose Your Plan",
                subheadline |-> "Select the perfect plan for your needs",
                tiers |-> <<[id |-> "starter", name |-> "Starter", price |-> 9],
                            [id |-> "pro", name |-> "Professional", price |-> 29, featured |-> TRUE],
                            [id |-> "enterprise", name |-> "Enterprise", price |-> 99]>>,
                showBillingToggle |-> TRUE,
                yearlyDiscount |-> 20]]

createDashboardSpec ==
    [name  |-> "DashboardLayout",
     props |-> [sidebar |-> [title |-> "Dashboard",
                             navItems |-> <<[id |-> "home", label |-> "Home", icon |-> "home"],
                                            [id |-> "analytics", label |-> "Analytics", icon |-> "bar-chart"],
                                            [id |-> "projects", label |-> "Projects", icon |-> "folder"],
                                            [id |-> "settings", label |-> "Settings", icon |-> "settings"]>>,
                             collapsible |-> TRUE, showUserProfile |-> TRUE],
                showSidebar |-> TRUE,
                header |-> [title |-> "Overview", showSearch |-> TRUE,
                            showNotifications |-> TRUE, showUserMenu |-> TRUE],
                showHeader |-> TRUE,
                pageTitle |-> "Dashboard",
                contentPadding |-> "md"]]

createChartSpec ==
    [name  |-> "Chart",
     props |-> [type |-> "line", title |-> "Performance Overview", subtitle |-> "Last 6 months",
                showLegend |-> TRUE, showGrid |-> TRUE, animated |-> TRUE,
                colorScheme |-> "default"]]

createFormSpec ==
    [name  |-> "Form",
     props |-> [title |-> "Contact Us",
                description |-> "Fill out the form below and we'll get back to you",
                fields |-> <<[name |-> "name", label |-> "Full Name", required |-> TRUE],
                             [name |-> "email", label |-> "Email", required |-> TRUE],
                             [name |-> "message", label |-> "Message", required |-> TRUE]>>,
                submitText |-> "Send Message",
                showSubmitButton |-> TRUE,
                showValidationOnBlur |-> TRUE]]

createModalSpec ==
    [name  |-> "Modal",
     props |-> [title |-> "Confirm Action", description |-> "Are you sure you want to proceed?",
                variant |-> "default", size |-> "md", showCloseButton |-> TRUE, isOpen |-> TRUE]]

createTestimonialSpec ==
    [name  |-> "TestimonialSection",
     props |-> [headline |-> "What Our Customers Say",
                subheadline |-> "Don't just take our word for it",
                testimonials |-> <<[id |-> "1", authorName |-> "Sarah Johnson"],
                                   [id |-> "2", authorName |-> "Michael Chen"],
                                   [id |-> "3", authorName |-> "Emily Brown"]>>,
                layout |-> "grid", columns |-> 3, showRatings |-> TRUE,
                showAvatars |-> TRUE, cardStyle |-> "elevated"]]

\* The components selected before the generic pair is considered (lines 315-346).
selectedComponents(keywords, description) ==
    LET lowerDesc == toLowerCase(description)
        c1 == IF "pricing" \in keywords THEN <<createPricingTableSpec>> ELSE <<>>
        c2 == c1 \o (IF "dashboard" \in keywords THEN <<createDashboardSpec>> ELSE <<>>)
        c3 == c2 \o (IF "chart" \in keywords THEN <<createChartSpec>> ELSE <<>>)
        c4 == c3 \o (IF "form" \in keywords THEN <<createFormSpec>> ELSE <<>>)
        c5 == c4 \o (IF "modal" \in keywords THEN <<createModalSpec>> ELSE <<>>)
        c6 == c5 \o (IF "testimonial" \in keywords THEN <<createTestimonialSpec>> ELSE <<>>)
        c7 == c6 \o (IF "card" \in keywords \/ Includes(lowerDesc, "hero")
                        \/ Includes(lowerDesc, "feature")
                     THEN <<createCardSpec(description)>> ELSE <<>>)
        c8 == c7 \o (IF Len(c7) > 0 /\ (Includes(lowerDesc, "landing")
                                        \/ Includes(lowerDesc, "hero")
                                        \/ Includes(lowerDesc, "cta"))
                     THEN <<createButtonSpec(description)>> ELSE <<>>)
    IN  c8

\* Variant of selectComponents: no generic pair.
selectComponentsNoFallback(keywords, description) ==
    selectedComponents(keywords, description)

selectComponents(keywords, description) ==
    LET components == selectedComponents(keywords, description) IN
    IF Len(components) = 0
    THEN <<createCardSpec(description), createButtonSpec(description)>>
    ELSE components

determineLayout(components) ==
    IF \E i \in 1..Len(components) :
          components[i].name \in {"DashboardLayout", "PricingTable"}
    THEN [type |-> "stack", spacing |-> "0"]
    ELSE [type |-> "stack", spacing |-> "2rem", maxWidth |-> "1200px"]

generateUIName(description) ==
    LET lowerDesc == toLowerCase(description) IN
    IF Includes(lowerDesc, "pricing") THEN "Pricing Page"
    ELSE IF Includes(lowerDesc, "dashboard") THEN "Dashboard"
    ELSE IF Includes(lowerDesc, "landing") THEN "Landing Page"
    ELSE IF Includes(lowerDesc, "hero") THEN "Hero Section"
    ELSE IF Includes(lowerDesc, "contact") THEN "Contact Form"
    ELSE IF Includes(lowerDesc, "testimonial") THEN "Testimonials Section"
    ELSE "Generated UI"

\* Variant of createNewUI: the specification is created without components.
createNewUIWithoutComponents(description, uuid) ==
    [id |-> uuid,
     name |-> generateUIName(description),
     description |-> description,
     components |-> <<>>,
     layout |-> determineLayout(<<>>),
     metadata |-> [version |-> 1]]

\* uuid is the value uuidv4() returns; the timestamps are not modelled.
createNewUI(description, uuid) ==
    LET components == selectComponents(extractKeywords(description), description) IN
    [id |-> uuid,
     name |-> generateUIName(description),
     description |-> description,
     components |-> components,
     layout |-> determineLayout(components),
     metadata |-> [version |-> 1]]

determineModifications(request) ==
    LET lowerRequest == toLowerCase(request) IN
       (IF Includes(lowerRequest, "more modern") \/ Includes(lowerRequest, "modern")
        THEN <<[action |-> "update", componentIndex |-> 0, props |-> [variant |-> "glass"]]>>
        ELSE <<>>)
    \o (IF Includes(lowerRequest, "bigger") \/ Includes(lowerRequest, "larger")
        THEN <<[action |-> "update", componentIndex |-> 0, props |-> [size |-> "xl"]]>>
        ELSE <<>>)
    \o (IF Includes(lowerRequest, "smaller")
        THEN <<[action |-> "update", componentIndex |-> 0, props |-> [size |-> "sm"]]>>
        ELSE <<>>)
    \o (IF Includes(lowerRequest, "add button") \/ Includes(lowerRequest, "add cta")
        THEN <<[action |-> "add", component |-> createButtonSpec(request)]>>
        ELSE <<>>)
    \o (IF Includes(lowerRequest, "add testimonial")
        THEN <<[action |-> "add", component |-> createTestimonialSpec]>>
        ELSE <<>>)

\* The loop of modifyExistingUI over the modifications.  The result is None
\* when the loop throws: an update reads components[componentIndex].props,
\* a TypeError when there is no component at that index.
RECURSIVE ApplyModifications(_, _)
ApplyModifications(newUI, modifications) ==
    IF Len(modifications) = 0 THEN Some(newUI)
    ELSE LET mod == Head(modifications) IN
         IF mod.action = "add"
         THEN ApplyModifications(
                  [newUI EXCEPT !.components = Append(@, mod.component)],
                  Tail(modifications))
         ELSE \* "update"
              IF mod.componentIndex + 1 \in 1..Len(newUI.components)
              THEN ApplyModifications(
                       [newUI EXCEPT !.components[mod.componentIndex + 1].props =
                                        Merge(@, mod.props)],
                       Tail(modifications))
              ELSE None

metadataVersion(ui) ==
    IF "version" \in DOMAIN ui.metadata THEN ui.metadata.version ELSE 0

\* Variant of modifyExistingUI: the version is carried over unchanged.
modifyExistingUIKeepsVersion(request, currentUI, uuid) ==
    ApplyModifications([JsonClone(currentUI) EXCEPT !.id = uuid],
                       determineModifications(request))

modifyExistingUI(request, currentUI, uuid) ==
    LET cloned == JsonClone(currentUI)
        newUI  == [cloned EXCEPT !.id = uuid,
                                 !.metadata = Merge(@, [version |-> metadataVersion(cloned) + 1])]
    IN  ApplyModifications(newUI, determineModifications(request))

\* The argument currentUI of modifyExistingUI as it is after the call.
modifyExistingUIInput(request, currentUI, uuid) ==
    LET written == modifyExistingUI(request, currentUI, uuid) IN
    IF IsSome(written) THEN SeenAfter(currentUI, Get(written)) ELSE currentUI

\* UIArchitectAgent.processRequest.  uuids is the number of uuidv4() calls made.
architectProcessRequest(message, ctx, uuid) ==
    LET requestType == analyzeRequestType(message, ctx) IN
    IF requestType = "create"
    THEN [success |-> TRUE, data |-> Some(createNewUI(message, uuid)),
          errors |-> <<>>, uuids |-> 1]
    ELSE IF requestType = "modify"
    THEN IF ~IsSome(ctx.currentUI)
         THEN [success |-> FALSE, data |-> None,
               errors |-> <<"NO_EXISTING_UI">>, uuids |-> 0]
         ELSE LET modified == modifyExistingUI(message, Get(ctx.currentUI), uuid) IN
              IF IsSome(modified)
              THEN [success |-> TRUE, data |-> modified, errors |-> <<>>, uuids |-> 1]
              ELSE [success |-> FALSE, data |-> None,
                    errors |-> <<"PROCESSING_ERROR">>, uuids |-> 1]
    ELSE [success |-> FALSE, data |-> None, errors |-> <<"UNKNOWN_REQUEST">>, uuids |-> 0]

-----------------------------------------------------------------------------
(* Design critic: src/src/agents/design-critic.ts *)

\* A JSON null inside a list (a tier, a form field, a testimonial).
JsonNull == [null |-> TRUE]
IsNull(v) == "null" \in DOMAIN v

NoFindings == [issues |-> <<>>, improvements |-> <<>>, threw |-> FALSE]

\* Variant of Issue: every issue is raised with severity error.
IssueAsError(type, severity) == [type |-> type, severity |-> "error"]

Issue(type, severity) == [type |-> type, severity |-> severity]
Improvement(index, proposed) == [componentIndex |-> index, proposedProps |-> proposed]

\* tiers.some(t => t.featured) reads each tier up to the first featured one;
\* reading a property of null throws.
SomeFeaturedThrows(tiers) ==
    \E i \in 1..Len(tiers) :
        /\ IsNull(tiers[i])
        /\ \A j \in 1..(i - 1) : ~Flag(tiers[j], "featured")

criticCheckComponent(component, index) ==
    LET props == component.props IN
    IF component.name = "Button" THEN
        [NoFindings EXCEPT
            !.improvements =
                IF Present(props, "size") /\ props.size \in {"xs", "sm"}
                THEN <<Improvement(index, Some([size |-> "md"]))>> ELSE <<>>,
            !.issues =
                IF Flag(props, "iconOnly") /\ ~Text(props, "ariaLabel")
                   /\ ~Text(props, "aria-label")
                THEN <<Issue("hierarchy", "warning")>> ELSE <<>>]
    ELSE IF component.name = "Card" THEN
        [NoFindings EXCEPT
            !.improvements =
                   (IF ~Text(props, "title") /\ ~Text(props, "header")
                    THEN <<Improvement(index, Some([title |-> "Section Title"]))>> ELSE <<>>)
                \o (IF ~Text(props, "variant")
                    THEN <<Improvement(index, Some([variant |-> "elevated"]))>> ELSE <<>>)]
    ELSE IF component.name = "PricingTable" THEN
        IF ~Present(props, "tiers") THEN NoFindings
        ELSE IF SomeFeaturedThrows(props.tiers) THEN [NoFindings EXCEPT !.threw = TRUE]
        ELSE [NoFindings EXCEPT
                !.improvements =
                    IF ~\E i \in 1..Len(props.tiers) : Flag(props.tiers[i], "featured")
                    THEN <<Improvement(index, None)>> ELSE <<>>,
                !.issues =
                    IF Len(props.tiers) < 2
                    THEN <<Issue("hierarchy", "suggestion")>> ELSE <<>>]
    ELSE IF component.name = "Form" THEN
        [NoFindings EXCEPT
            !.improvements =
                IF ~Flag(props, "showValidationOnBlur") /\ ~Flag(props, "showValidationOnChange")
                THEN <<Improvement(index, Some([showValidationOnBlur |-> TRUE]))>> ELSE <<>>]
    ELSE IF component.name = "Chart" THEN
        [NoFindings EXCEPT
            !.improvements =
                   (IF ~Text(props, "title")
                    THEN <<Improvement(index, Some([title |-> "Data Overview"]))>> ELSE <<>>)
                \o (IF Present(props, "showLegend") /\ props.showLegend = FALSE
                    THEN <<Improvement(index, Some([showLegend |-> TRUE]))>> ELSE <<>>)]
    ELSE IF component.name = "DashboardLayout" THEN
        [NoFindings EXCEPT
            !.improvements =
                IF Present(props, "header") /\ ~Flag(props.header, "showBreadcrumbs")
                THEN <<Improvement(index, None)>> ELSE <<>>]
    ELSE IF component.name = "TestimonialSection" THEN
        [NoFindings EXCEPT
            !.improvements =
                   (IF Present(props, "testimonials") /\ Len(props.testimonials) < 3
                    THEN <<Improvement(index, None)>> ELSE <<>>)
                \o (IF ~Flag(props, "showRatings")
                    THEN <<Improvement(index, Some([showRatings |-> TRUE]))>> ELSE <<>>)]
    ELSE NoFindings

\* uiSpec.components.forEach(checkComponent), from index i (0-based) on.
RECURSIVE criticCheckComponents(_, _)
criticCheckComponents(components, i) ==
    IF i >= Len(components) THEN NoFindings
    ELSE LET here == criticCheckComponent(components[i + 1], i) IN
         IF here.threw THEN here
         ELSE LET rest == criticCheckComponents(components, i + 1) IN
              [issues |-> here.issues \o rest.issues,
               improvements |-> here.improvements \o rest.improvements,
               threw |-> rest.threw]

checkLayout(uiSpec) ==
    LET n == Len(uiSpec.components)
        hasHeroContent ==
            \E i \in 1..n :
                /\ uiSpec.components[i].name = "Card"
                /\ Present(uiSpec.components[i].props, "size")
                /\ uiSpec.components[i].props.size \in {"lg", "xl"}
        hasButton == \E i \in 1..n : uiSpec.components[i].name = "Button"
        hasForm == \E i \in 1..n : uiSpec.components[i].name = "Form"
    IN  [issues |->
               (IF n > 10 THEN <<Issue("hierarchy", "warning")>> ELSE <<>>)
            \o (IF ~hasButton /\ ~hasForm THEN <<Issue("hierarchy", "suggestion")>> ELSE <<>>),
         improvements |->
            IF ~hasHeroContent /\ n > 0
            THEN <<Improvement(0, Some([size |-> "lg"]))>> ELSE <<>>,
         threw |-> FALSE]

checkConsistency(components) ==
    LET n == Len(components)
        uniqueSizes == {components[i].props.size :
                          i \in {j \in 1..n : components[j].name = "Button"
                                              /\ Present(components[j].props, "size")}}
        uniqueVariants == {components[i].props.variant :
                             i \in {j \in 1..n : components[j].name = "Card"
                                                 /\ Present(components[j].props, "variant")}}
    IN  [issues |->
               (IF Cardinality(uniqueSizes) > 2
                THEN <<Issue("consistency", "warning")>> ELSE <<>>)
            \o (IF Cardinality(uniqueVariants) > 2
                THEN <<Issue("consistency", "suggestion")>> ELSE <<>>),
         improvements |-> <<>>,
         threw |-> FALSE]

SeverityPenalty(severity) ==
    IF severity = "error" THEN 20
    ELSE IF severity = "warning" THEN 10
    ELSE IF severity = "suggestion" THEN 5
    ELSE 0

\* Variant of calculateScore: the floor at 0 is applied before the bonus.
calculateScoreFloorFirst(feedback) ==
    LET penalties == SeqSum([i \in 1..Len(feedback.issues) |->
                                SeverityPenalty(feedback.issues[i].severity)])
        score == Max(0, 100 - penalties)
    IN  IF Len(feedback.improvements) > 0 /\ Len(feedback.improvements) <= 3
        THEN Min(100, score + 5)
        ELSE score

calculateScore(feedback) ==
    LET penalties == SeqSum([i \in 1..Len(feedback.issues) |->
                                SeverityPenalty(feedback.issues[i].severity)])
        score == 100 - penalties
        withBonus == IF Len(feedback.improvements) > 0 /\ Len(feedback.improvements) <= 3
                     THEN Min(100, score + 5)
                     ELSE score
    IN  Max(0, withBonus)

\* None when a rule throws.
analyzeDesign(uiSpec) ==
    LET perComponent == criticCheckComponents(uiSpec.components, 0) IN
    IF perComponent.threw THEN None
    ELSE LET layout == checkLayout(uiSpec)
             consistency == checkConsistency(uiSpec.components)
             collected == [issues |-> perComponent.issues \o layout.issues \o consistency.issues,
                           improvements |-> perComponent.improvements \o layout.improvements
                                            \o consistency.improvements]
         IN  Some([score |-> calculateScore(collected),
                   issues |-> collected.issues,
                   improvements |-> collected.improvements])

RECURSIVE ApplyImprovementList(_, _)
ApplyImprovementList(improved, improvements) ==
    IF Len(improvements) = 0 THEN improved
    ELSE LET improvement == Head(improvements)
             at == improvement.componentIndex + 1
         IN  ApplyImprovementList(
                 IF IsSome(improvement.proposedProps) /\ at \in 1..Len(improved.components)
                 THEN [improved EXCEPT !.components[at].props =
                                          Merge(@, Get(improvement.proposedProps))]
                 ELSE improved,
                 Tail(improvements))

applyImprovements(uiSpec, feedback) ==
    ApplyImprovementList(JsonClone(uiSpec), feedback.improvements)

\* The argument uiSpec of applyImprovements as it is after the call.
applyImprovementsInput(uiSpec, feedback) ==
    SeenAfter(uiSpec, applyImprovements(uiSpec, feedback))

\* The argument uiSpec of review as it is after the call: applyImprovements is
\* the one place of the stage that writes (lines 91-113).
reviewInput(uiSpec) ==
    LET analysed == analyzeDesign(uiSpec) IN
    IF ~IsSome(analysed) THEN uiSpec
    ELSE applyImprovementsInput(uiSpec, Get(analysed))

\* DesignCriticAgent.review.  The data of a response with critical issues is
\* the feedback itself; otherwise it is { feedback, improvedUI }.
review(uiSpec) ==
    LET analysed == analyzeDesign(uiSpec) IN
    IF ~IsSome(analysed)
    THEN [success |-> FALSE, data |-> None, errors |-> <<"REVIEW_ERROR">>]
    ELSE LET feedback == Get(analysed)
             hasCriticalIssues ==
                 \E i \in 1..Len(feedback.issues) : feedback.issues[i].severity = "error"
         IN  IF hasCriticalIssues
             THEN [success |-> FALSE, data |-> Some(feedback), errors |-> <<"DESIGN_ISSUES">>]
             ELSE [success |-> TRUE,
                   data |-> Some([feedback |-> feedback,
                                  improvedUI |-> applyImprovements(uiSpec, feedback)]),
                   errors |-> <<>>]

-----------------------------------------------------------------------------
(* Accessibility agent: accessibility-agent.ts (src/unnamed/part_002) *)

UpperChar(c) == IF c \in DOMAIN UpperOf THEN UpperOf[c] ELSE c

\* String.prototype.toUpperCase
RECURSIVE toUpperCase(_)
toUpperCase(s) ==
    IF Len(s) = 0 THEN ""
    ELSE UpperChar(SubSeq(s, 1, 1)) \o toUpperCase(SubSeq(s, 2, Len(s)))

NoA11yFindings == [violations |-> <<>>, warnings |-> <<>>, threw |-> FALSE]

\* Variant of Violation: every violation is reported as serious.
ViolationSerious(rule, impact, index) ==
    [rule |-> rule, impact |-> "serious", componentIndex |-> index]

Violation(rule, impact, index) == [rule |-> rule, impact |-> impact, componentIndex |-> index]
Warning(rule) == [rule |-> rule]

\* fields.flatMap(s => s.fields || []) when the first entry is a section,
\* the fields themselves otherwise.  None when a null section is read.
flatFields(fields) ==
    IF Len(fields) > 0 /\ ~IsNull(fields[1]) /\ Present(fields[1], "fields")
    THEN IF \E i \in 1..Len(fields) : IsNull(fields[i]) THEN None
         ELSE Some(Flatten([i \in 1..Len(fields) |->
                               IF Present(fields[i], "fields") THEN fields[i].fields ELSE <<>>]))
    ELSE Some(fields)

\* flatFields.forEach(...), field by field.
RECURSIVE checkFormFields(_, _)
checkFormFields(fields, index) ==
    IF Len(fields) = 0 THEN NoA11yFindings
    ELSE LET field == Head(fields) IN
         IF IsNull(field) THEN [NoA11yFindings EXCEPT !.threw = TRUE]
         ELSE LET rest == checkFormFields(Tail(fields), index) IN
              [violations |->
                   (IF ~Text(field, "label") /\ ~Text(field, "aria-label")
                    THEN <<Violation("form-field-label", "critical", index)>> ELSE <<>>)
                   \o rest.violations,
               warnings |->
                   (IF Flag(field, "required")
                       /\ ~(Present(field, "label") /\ Includes(field.label, "*"))
                    THEN <<Warning("required-indication")>> ELSE <<>>)
                   \o rest.warnings,
               threw |-> rest.threw]

checkComponentAccessibility(component, index) ==
    LET props == component.props IN
    IF component.name = "Button" THEN
        [NoA11yFindings EXCEPT
            !.violations =
                   (IF Flag(props, "iconOnly") /\ ~Text(props, "ariaLabel")
                       /\ ~Text(props, "aria-label")
                    THEN <<Violation("button-name", "critical", index)>> ELSE <<>>)
                \o (IF ~Flag(props, "iconOnly") /\ ~Text(props, "text")
                       /\ ~Text(props, "children")
                    THEN <<Violation("button-name", "critical", index)>> ELSE <<>>)]
    ELSE IF component.name = "Form" THEN
        IF ~(Present(props, "fields") \/ Present(props, "sections")) THEN NoA11yFindings
        ELSE LET fields == IF Present(props, "fields") THEN props.fields ELSE props.sections
                 flat == flatFields(fields)
             IN  IF ~IsSome(flat) THEN [NoA11yFindings EXCEPT !.threw = TRUE]
                 ELSE checkFormFields(Get(flat), index)
    ELSE IF component.name = "Modal" THEN
        [NoA11yFindings EXCEPT
            !.violations =
                   (IF ~Text(props, "title") /\ ~Text(props, "aria-label")
                       /\ ~Text(props, "ariaLabel")
                    THEN <<Violation("modal-name", "serious", index)>> ELSE <<>>)
                \o (IF Present(props, "showCloseButton") /\ props.showCloseButton = FALSE
                       /\ ~Flag(props, "closeOnEscape") /\ ~Flag(props, "closeOnOverlayClick")
                    THEN <<Violation("modal-escape", "serious", index)>> ELSE <<>>)]
    ELSE IF component.name = "Card" THEN
        [NoA11yFindings EXCEPT
            !.warnings =
                IF Flag(props, "clickable") /\ ~Text(props, "href") /\ ~Text(props, "onClick")
                THEN <<Warning("card-interactive")>> ELSE <<>>,
            !.violations =
                IF Text(props, "imageUrl") /\ ~Text(props, "imageAlt")
                THEN <<Violation("image-alt", "serious", index)>> ELSE <<>>]
    ELSE IF component.name = "Chart" THEN
        [NoA11yFindings EXCEPT
            !.violations =
                IF ~Text(props, "title") /\ ~Text(props, "aria-label")
                THEN <<Violation("chart-label", "serious", index)>> ELSE <<>>]
    ELSE IF component.name = "TestimonialSection" THEN
        IF ~Present(props, "testimonials") THEN NoA11yFindings
        ELSE LET ts == props.testimonials IN
             IF \E i \in 1..Len(ts) : IsNull(ts[i])
             THEN [NoA11yFindings EXCEPT !.threw = TRUE]
             ELSE [NoA11yFindings EXCEPT
                     !.warnings =
                        [i \in 1..Cardinality({j \in 1..Len(ts) :
                                                  Text(ts[j], "authorAvatarUrl")
                                                  /\ ~Text(ts[j], "authorName")})
                           |-> Warning("image-alt")]]
    ELSE IF component.name = "DashboardLayout" THEN
        IF ~(Present(props, "sidebar") /\ Present(props.sidebar, "navItems")) THEN NoA11yFindings
        ELSE LET items == props.sidebar.navItems IN
             IF \E i \in 1..Len(items) : IsNull(items[i])
             THEN [NoA11yFindings EXCEPT !.threw = TRUE]
             ELSE [NoA11yFindings EXCEPT
                     !.violations =
                        [i \in 1..Cardinality({j \in 1..Len(items) :
                                                  Text(items[j], "icon")
                                                  /\ ~Text(items[j], "label")})
                           |-> Violation("nav-item-label", "serious", index)]]
    ELSE NoA11yFindings

RECURSIVE a11yCheckComponents(_, _)
a11yCheckComponents(components, i) ==
    IF i >= Len(components) THEN NoA11yFindings
    ELSE LET here == checkComponentAccessibility(components[i + 1], i) IN
         IF here.threw THEN here
         ELSE LET rest == a11yCheckComponents(components, i + 1) IN
              [violations |-> here.violations \o rest.violations,
               warnings |-> here.warnings \o rest.warnings,
               threw |-> rest.threw]

checkPageStructure(uiSpec) ==
    LET n == Len(uiSpec.components)
        hasDashboard == \E i \in 1..n : uiSpec.components[i].name = "DashboardLayout"
        hasHeadings == \E i \in 1..n : \/ Text(uiSpec.components[i].props, "title")
                                       \/ Text(uiSpec.components[i].props, "headline")
    IN  [violations |-> <<>>,
         warnings |->
               (IF ~hasDashboard THEN <<Warning("landmark-main")>> ELSE <<>>)
            \o (IF ~hasHeadings /\ n > 0 THEN <<Warning("heading-structure")>> ELSE <<>>),
         threw |-> FALSE]

ImpactPenalty(impact) ==
    IF impact = "critical" THEN 25
    ELSE IF impact = "serious" THEN 15
    ELSE IF impact = "moderate" THEN 10
    ELSE IF impact = "minor" THEN 5
    ELSE 0

\* Variant of calculateA11yScore: the floor at 0 is missing.
calculateA11yScoreUnfloored(report) ==
    100 - SeqSum([i \in 1..Len(report.violations) |->
                     ImpactPenalty(report.violations[i].impact)])
        - 2 * Len(report.warnings)

calculateA11yScore(report) ==
    LET score == 100
                 - SeqSum([i \in 1..Len(report.violations) |->
                              ImpactPenalty(report.violations[i].impact)])
                 - 2 * Len(report.warnings)
    IN  Max(0, score)

\* Variant of reportPassed: serious violations fail the report too.
reportPassedStrict(report) ==
    Cardinality({i \in 1..Len(report.violations) :
                    report.violations[i].impact \in {"critical", "serious"}}) = 0

\* report.violations.filter(v => v.impact === "critical").length === 0
reportPassed(report) ==
    Cardinality({i \in 1..Len(report.violations) :
                    report.violations[i].impact = "critical"}) = 0

\* None when a check throws.
runAccessibilityChecks(uiSpec) ==
    LET perComponent == a11yCheckComponents(uiSpec.components, 0) IN
    IF perComponent.threw THEN None
    ELSE LET page == checkPageStructure(uiSpec)
             collected == [violations |-> perComponent.violations \o page.violations,
                           warnings |-> perComponent.warnings \o page.warnings]
         IN  Some([passed |-> reportPassed(collected),
                   score |-> calculateA11yScore(collected),
                   violations |-> collected.violations,
                   warnings |-> collected.warnings])

applyFix(props, violation) ==
    LET p1 == IF violation.rule = "button-name" /\ Flag(props, "iconOnly")
              THEN Merge(props, [ariaLabel |->
                        (IF Text(props, "icon") THEN props.icon ELSE "Action") \o " button"])
              ELSE props
        p2 == IF violation.rule = "modal-name" /\ ~Text(p1, "title")
              THEN Merge(p1, [k \in {"aria-label"} |-> "Dialog"])
              ELSE p1
        p3 == IF violation.rule = "image-alt" /\ Text(p2, "imageUrl")
              THEN Merge(p2, [imageAlt |-> IF Text(p2, "title") THEN p2.title ELSE "Image"])
              ELSE p2
        p4 == IF violation.rule = "chart-label"
              THEN Merge(p3, [k \in {"aria-label"} |->
                        "Chart: " \o (IF Text(p3, "subtitle") THEN p3.subtitle
                                      ELSE "Data visualization")])
              ELSE p3
    IN  p4

RECURSIVE ApplyFixList(_, _)
ApplyFixList(fixed, violations) ==
    IF Len(violations) = 0 THEN fixed
    ELSE LET violation == Head(violations)
             at == violation.componentIndex + 1
         IN  ApplyFixList(
                 IF at \in 1..Len(fixed.components)
                 THEN [fixed EXCEPT !.components[at].props = applyFix(@, violation)]
                 ELSE fixed,
                 Tail(violations))

applyAccessibilityFixes(uiSpec, report) ==
    ApplyFixList(JsonClone(uiSpec), report.violations)

\* The argument uiSpec of applyAccessibilityFixes as it is after the call.
applyAccessibilityFixesInput(uiSpec, report) ==
    SeenAfter(uiSpec, applyAccessibilityFixes(uiSpec, report))

\* The argument uiSpec of validate as it is after the call:
\* applyAccessibilityFixes is the one place of the stage that writes (line 71).
validateInput(uiSpec) ==
    LET checked == runAccessibilityChecks(uiSpec) IN
    IF ~IsSome(checked) THEN uiSpec
    ELSE applyAccessibilityFixesInput(uiSpec, Get(checked))

\* report.violations.filter(v => v.impact === "critical")
RECURSIVE criticalViolations(_)
criticalViolations(violations) ==
    IF Len(violations) = 0 THEN <<>>
    ELSE (IF Head(violations).impact = "critical" THEN <<Head(violations)>> ELSE <<>>)
         \o criticalViolations(Tail(violations))

\* AccessibilityAgent.validate
validate(uiSpec) ==
    LET checked == runAccessibilityChecks(uiSpec) IN
    IF ~IsSome(checked)
    THEN [success |-> FALSE, data |-> None, errors |-> <<"VALIDATION_ERROR">>]
    ELSE LET report == Get(checked)
             fixedUI == applyAccessibilityFixes(uiSpec, report)
             critical == criticalViolations(report.violations)
         IN  IF Len(critical) > 0
             THEN [success |-> FALSE,
                   data |-> Some([report |-> report, fixedUI |-> fixedUI]),
                   errors |-> [i \in 1..Len(critical) |->
                                  "A11Y_" \o toUpperCase(critical[i].rule)]]
             ELSE [success |-> TRUE,
                   data |-> Some([report |-> report, fixedUI |-> fixedUI]),
                   errors |-> <<>>]

-----------------------------------------------------------------------------
(* Export engineer: export-engineer.ts.  The stage either returns a package,  *)
(* returns a failure response, or lets an exception escape.                   *)

ExportOutcomes == {"ok", "failed", "threw"}

exportPackageOf(uiSpec) ==
    [format |-> "react",
     files |-> <<[name |-> "GeneratedUI.tsx", type |-> "component",
                  content |-> [i \in 1..Len(uiSpec.components) |->
                                  uiSpec.components[i].name]]>>]

exportStage(uiSpec, outcome) ==
    IF outcome = "ok"
    THEN [success |-> TRUE, data |-> Some(exportPackageOf(uiSpec)), errors |-> <<>>]
    ELSE [success |-> FALSE, data |-> None, errors |-> <<"EXPORT_ERROR">>]

-----------------------------------------------------------------------------
(* Orchestrator: src/src/agents/orchestrator.ts *)

defaultOptions ==
    [autoApplyDesignImprovements |-> TRUE,
     autoApplyAccessibilityFixes |-> TRUE,
     skipDesignReview |-> FALSE,
     skipAccessibilityCheck |-> FALSE,
     exportOnSuccess |-> TRUE]

NoResponse == [success |-> FALSE, data |-> None, errors |-> <<>>]

NoResult ==
    [conversationId |-> 0, success |-> FALSE, uiSpec |-> None, designFeedback |-> None,
     accessibilityReport |-> None, exportPackage |-> None, errors |-> <<>>,
     messages |-> <<>>]

\* The part of the state a processRequest call reads and writes.
Cur ==
    [context |-> context, messages |-> messages, uuidCounter |-> uuidCounter,
     localUI |-> localUI, pending |-> pending, result |-> result, calls |-> calls,
     returns |-> returns, pc |-> pc]

Commit(st) ==
    /\ context' = st.context
    /\ messages' = st.messages
    /\ uuidCounter' = st.uuidCounter
    /\ localUI' = st.localUI
    /\ pending' = st.pending
    /\ result' = st.result
    /\ calls' = st.calls
    /\ returns' = st.returns
    /\ pc' = st.pc

\* Variant of logMessage: the message reaches the conversation history only.
logMessageHistoryOnly(st, from, to, action) ==
    LET message == [id |-> st.uuidCounter + 1, from |-> from, to |-> to, action |-> action] IN
    [st EXCEPT !.uuidCounter = @ + 1,
               !.context.history = Append(@, message)]

\* Variant of logMessage: the message is put in front of the earlier ones.
logMessageUnshift(st, from, to, action) ==
    LET message == [id |-> st.uuidCounter + 1, from |-> from, to |-> to, action |-> action] IN
    [st EXCEPT !.uuidCounter = @ + 1,
               !.messages = <<message>> \o @,
               !.context.history = <<message>> \o @]

logMessage(st, from, to, action) ==
    LET message == [id |-> st.uuidCounter + 1, from |-> from, to |-> to, action |-> action] IN
    [st EXCEPT !.uuidCounter = @ + 1,
               !.messages = Append(@, message),
               !.context.history = Append(@, message)]

PipelineError(agent, response, fallback) ==
    [agent |-> agent,
     code |-> IF Len(response.errors) > 0 /\ response.errors[1] # ""
              THEN response.errors[1] ELSE fallback]

\* result.messages = this.messages; return result
\* Variant of ReturnResult: the result keeps the message list it was created with.
ReturnResultNoMessages(st) ==
    [st EXCEPT !.pending = NoResponse,
               !.pc = "returned"]

ReturnResult(st) ==
    [st EXCEPT !.result.messages = st.messages,
               !.pending = NoResponse,
               !.pc = "returned"]

\* Variant of pipelineSuccess: any recorded error fails the run.
pipelineSuccessNoErrors(res) == IsSome(res.uiSpec) /\ res.errors = <<>>

\* "a UI spec and no critical errors" (lines 212-214)
pipelineSuccess(res) ==
    /\ IsSome(res.uiSpec)
    /\ ~\E i \in 1..Len(res.errors) :
          res.errors[i].agent = "accessibility" /\ StartsWith(res.errors[i].code, "A11Y_")

Finish(st) ==
    ReturnResult([st EXCEPT !.result.success = pipelineSuccess(st.result)])

\* Step 4 up to the await of exportEngineer.export
StartExport(st) ==
    IF options.exportOnSuccess
    THEN LET logged == logMessage(st, "orchestrator", "export-engineer", "EXPORT_CODE") IN
         [logged EXCEPT !.calls = Append(@, "export-engineer"),
                        !.pending = NoResponse,
                        !.pc = "awaitExport"]
    ELSE Finish(st)

\* Variant of StartValidation: the validation stage is never invoked.
StartValidationSkipped(st) == StartExport(st)

\* Step 3 up to the await of a11yAgent.validate
StartValidation(st) ==
    IF ~options.skipAccessibilityCheck
    THEN LET logged == logMessage(st, "orchestrator", "accessibility",
                                  "VALIDATE_ACCESSIBILITY") IN
         [logged EXCEPT !.calls = Append(@, "accessibility"),
                        !.pending = validate(Get(st.localUI)),
                        !.pc = "awaitValidate"]
    ELSE StartExport(st)

\* Step 2 up to the await of designCritic.review
StartCritique(st) ==
    IF ~options.skipDesignReview
    THEN LET logged == logMessage(st, "orchestrator", "design-critic", "VALIDATE_DESIGN") IN
         [logged EXCEPT !.calls = Append(@, "design-critic"),
                        !.pending = review(Get(st.localUI)),
                        !.pc = "awaitReview"]
    ELSE StartValidation(st)

\* Variant of setCurrentUI: the context keeps the specification it had.
setCurrentUIResultOnly(st, ui) ==
    [st EXCEPT !.localUI = Some(ui),
               !.result.uiSpec = Some(ui)]

\* this.context.currentUI = currentUI and its two companions
setCurrentUI(st, ui) ==
    [st EXCEPT !.localUI = Some(ui),
               !.result.uiSpec = Some(ui),
               !.context.currentUI = Some(ui)]

Returned(st, agent, success) ==
    [st EXCEPT !.returns = Append(@, [agent |-> agent, success |-> success])]

\* Variant of AfterArchitect: a failed generation also drops the current specification.
AfterArchitectDropsCurrent(st0) ==
    LET architectResponse == st0.pending
        st == Returned(st0, "ui-architect", architectResponse.success) IN
    IF ~architectResponse.success \/ ~IsSome(architectResponse.data)
    THEN ReturnResult([st EXCEPT
             !.result.errors =
                 Append(@, PipelineError("ui-architect", architectResponse, "UNKNOWN")),
             !.context.currentUI = None])
    ELSE StartCritique(setCurrentUI(st, Get(architectResponse.data)))

\* lines 119-131
AfterArchitect(st0) ==
    LET architectResponse == st0.pending
        st == Returned(st0, "ui-architect", architectResponse.success) IN
    IF ~architectResponse.success \/ ~IsSome(architectResponse.data)
    THEN ReturnResult([st EXCEPT !.result.errors =
                          Append(@, PipelineError("ui-architect", architectResponse, "UNKNOWN"))])
    ELSE StartCritique(setCurrentUI(st, Get(architectResponse.data)))

\* Variant of AfterCritique: a failed critique ends the run.
AfterCritiqueHalting(st0) ==
    LET criticResponse == st0.pending
        st == Returned(st0, "design-critic", criticResponse.success)
    IN  IF ~criticResponse.success
        THEN ReturnResult([st EXCEPT !.result.errors =
                 Append(@, PipelineError("design-critic", criticResponse, "DESIGN_ISSUES"))])
        ELSE LET criticData == Get(criticResponse.data) IN
             StartValidation(
                 IF options.autoApplyDesignImprovements
                 THEN setCurrentUI([st EXCEPT !.result.designFeedback =
                                       Some(criticData.feedback)], criticData.improvedUI)
                 ELSE [st EXCEPT !.result.designFeedback = Some(criticData.feedback)])

\* lines 140-159
AfterCritique(st0) ==
    LET criticResponse == st0.pending
        st == Returned(st0, "design-critic", criticResponse.success)
        s1 == IF IsSome(criticResponse.data)
              THEN LET criticData == Get(criticResponse.data)
                       withFeedback ==
                           [st EXCEPT !.result.designFeedback =
                               IF Present(criticData, "feedback")
                               THEN Some(criticData.feedback) ELSE None]
                   IN  IF options.autoApplyDesignImprovements
                          /\ Present(criticData, "improvedUI")
                       THEN setCurrentUI(withFeedback, criticData.improvedUI)
                       ELSE withFeedback
              ELSE st
        s2 == IF ~criticResponse.success
              THEN [s1 EXCEPT !.result.errors =
                       Append(@, PipelineError("design-critic", criticResponse, "DESIGN_ISSUES"))]
              ELSE s1
    IN  StartValidation(s2)

\* Variant of a11yHalts: a failed validation without a report closes the gate too.
a11yHaltsWithoutReport(res) ==
    ~IsSome(res.accessibilityReport) \/ ~Get(res.accessibilityReport).passed

\* Variant of a11yHalts: the gate never closes.
a11yHaltsNever(res) == FALSE

\* "Don't continue if critical a11y issues" (line 186)
a11yHalts(res) ==
    IsSome(res.accessibilityReport) /\ ~Get(res.accessibilityReport).passed

\* lines 168-191
AfterValidation(st0) ==
    LET a11yResponse == st0.pending
        st == Returned(st0, "accessibility", a11yResponse.success)
        s1 == IF IsSome(a11yResponse.data)
              THEN LET a11yData == Get(a11yResponse.data)
                       withReport ==
                           [st EXCEPT !.result.accessibilityReport =
                               IF Present(a11yData, "report")
                               THEN Some(a11yData.report) ELSE None]
                   IN  IF options.autoApplyAccessibilityFixes /\ Present(a11yData, "fixedUI")
                       THEN setCurrentUI(withReport, a11yData.fixedUI)
                       ELSE withReport
              ELSE st
    IN  IF ~a11yResponse.success
        THEN LET s2 == [s1 EXCEPT !.result.errors =
                           Append(@, PipelineError("accessibility", a11yResponse, "A11Y_ISSUES"))]
             IN  IF a11yHalts(s2.result) THEN ReturnResult(s2) ELSE StartExport(s2)
        ELSE StartExport(s1)

\* lines 200-217, and the catch block (lines 219-227) when the call throws
AfterExport(st0, outcome) ==
    LET st == Returned(st0, "export-engineer", outcome = "ok") IN
    IF outcome = "threw"
    THEN ReturnResult([st EXCEPT !.result.errors =
                          Append(@, [agent |-> "orchestrator", code |-> "ORCHESTRATION_ERROR"])])
    ELSE LET exportResponse == exportStage(Get(st.localUI), outcome) IN
         IF exportResponse.success /\ IsSome(exportResponse.data)
         THEN Finish([st EXCEPT !.result.exportPackage = exportResponse.data])
         ELSE Finish([st EXCEPT !.result.errors =
                         Append(@, PipelineError("export-engineer", exportResponse,
                                                 "EXPORT_FAILED"))])

\* lines 102-117: processRequest up to the await of uiArchitect.processRequest
processRequestStart(st, message) ==
    LET s1 == logMessage(st, "user", "orchestrator", "ANALYZE_REQUEST")
        s2 == [s1 EXCEPT !.result = [NoResult EXCEPT !.conversationId =
                                                        s1.context.conversationId],
                         !.localUI = None]
        s3 == logMessage(s2, "orchestrator", "ui-architect", "CREATE_UI")
        architectResponse == architectProcessRequest(message, s3.context, s3.uuidCounter + 1)
    IN  [s3 EXCEPT !.uuidCounter = @ + architectResponse.uuids,
                   !.calls = <<"ui-architect">>,
                   !.returns = <<>>,
                   !.pending = [success |-> architectResponse.success,
                                data |-> architectResponse.data,
                                errors |-> architectResponse.errors],
                   !.pc = "awaitArchitect"]

CanCall == pc \in {"idle", "returned"} /\ requests < MaxRequests

CountRun(st) ==
    okRuns' = IF st.pc = "returned" /\ st.result.success THEN okRuns + 1 ELSE okRuns

ProcessRequest(message) ==
    /\ CanCall
    /\ Commit(processRequestStart(Cur, message))
    /\ entry' = "processRequest"
    /\ userMessage' = message
    /\ before' = context.currentUI
    /\ logStart' = Len(messages)
    /\ requests' = requests + 1
    /\ UNCHANGED <<options, resets, okRuns, probe>>

\* Variant of modifyUIRejects: the guard is missing.
modifyUIRejectsNever(ctx) == FALSE

\* "No existing UI to modify" (line 234)
modifyUIRejects(ctx) == ~IsSome(ctx.currentUI)

ModifyUI(message) ==
    /\ CanCall
    /\ IF modifyUIRejects(context)
       THEN Commit([Cur EXCEPT
                !.result = [NoResult EXCEPT
                               !.conversationId = context.conversationId,
                               !.errors = <<[agent |-> "orchestrator", code |-> "NO_UI"]>>,
                               !.messages = messages],
                !.localUI = None,
                !.calls = <<>>,
                !.returns = <<>>,
                !.pending = NoResponse,
                !.pc = "returned"])
       ELSE Commit(processRequestStart(Cur, message))
    /\ entry' = "modifyUI"
    /\ userMessage' = message
    /\ before' = context.currentUI
    /\ logStart' = Len(messages)
    /\ requests' = requests + 1
    /\ UNCHANGED <<options, resets, okRuns, probe>>

ArchitectReturns ==
    /\ pc = "awaitArchitect"
    /\ \E st \in {AfterArchitect(Cur)} : Commit(st) /\ CountRun(st)
    /\ UNCHANGED <<options, entry, userMessage, before, logStart, requests, resets, probe>>

CriticReturns ==
    /\ pc = "awaitReview"
    /\ \E st \in {AfterCritique(Cur)} : Commit(st) /\ CountRun(st)
    /\ UNCHANGED <<options, entry, userMessage, before, logStart, requests, resets, probe>>

ValidationReturns ==
    /\ pc = "awaitValidate"
    /\ \E st \in {AfterValidation(Cur)} : Commit(st) /\ CountRun(st)
    /\ UNCHANGED <<options, entry, userMessage, before, logStart, requests, resets, probe>>

ExportReturns(outcome) ==
    /\ pc = "awaitExport"
    /\ \E st \in {AfterExport(Cur, outcome)} : Commit(st) /\ CountRun(st)
    /\ UNCHANGED <<options, entry, userMessage, before, logStart, requests, resets, probe>>

getCurrentUI == context.currentUI

\* Variant of resetContext: the current specification survives the reset.
resetContextKeepsUI(uuid) ==
    [conversationId |-> uuid, currentUI |-> context.currentUI, history |-> <<>>]

\* lines 322-328
resetContext(uuid) == [conversationId |-> uuid, currentUI |-> None, history |-> <<>>]

Reset ==
    /\ pc \in {"idle", "returned"}
    /\ resets < MaxResets
    /\ context' = resetContext(uuidCounter + 1)
    /\ messages' = <<>>
    /\ uuidCounter' = uuidCounter + 1
    /\ resets' = resets + 1
    /\ okRuns' = 0
    /\ entry' = "reset"
    /\ UNCHANGED <<options, pc, userMessage, localUI, pending, result, calls, returns,
                   before, logStart, requests, probe>>

\* getContext() hands out the context object itself (lines 260-262); its
\* holder can install a specification of its own as the current one.  The
\* holder does so on a context that has no current specification yet.
getContextSetCurrentUI(uiSpec) ==
    /\ pc \in {"idle", "returned"}
    /\ requests < MaxRequests
    /\ context.currentUI = None
    /\ context' = [context EXCEPT !.currentUI = Some(uiSpec)]
    /\ entry' = "getContext"
    /\ UNCHANGED <<options, messages, uuidCounter, pc, userMessage, localUI, pending,
                   result, calls, returns, before, logStart, requests, resets, okRuns,
                   probe>>

-----------------------------------------------------------------------------
(* Inputs *)

Requests ==
    {"Create a SaaS pricing page", "asdf", "Change it to be bigger", "add button"}

\* Requests made when the public methods are the only way in: a request for a
\* form is among them.
APIRequests == Requests \cup {"contact form"}

OptionChoices ==
    {defaultOptions,
     [defaultOptions EXCEPT !.skipDesignReview = TRUE],
     [defaultOptions EXCEPT !.skipAccessibilityCheck = TRUE],
     [defaultOptions EXCEPT !.exportOnSuccess = FALSE],
     [defaultOptions EXCEPT !.autoApplyDesignImprovements = FALSE,
                            !.autoApplyAccessibilityFixes = FALSE]}

Component(name, props) == [name |-> name, props |-> props]

IconOnlyButton == Component("Button", [iconOnly |-> TRUE, icon |-> "search", size |-> "md"])
SmallButton == Component("Button", [text |-> "Go", size |-> "sm"])
BareCard == Component("Card", [content |-> "text", imageUrl |-> "/hero.png"])
OneTierPricing == Component("PricingTable",
                            [headline |-> "Plans", tiers |-> <<[id |-> "solo", price |-> 5]>>])
NullTierPricing == Component("PricingTable", [headline |-> "Plans", tiers |-> <<JsonNull>>])
TrappedModal == Component("Modal", [showCloseButton |-> FALSE])
UnlabelledForm == Component("Form", [fields |-> <<[name |-> "email", required |-> TRUE]>>])
NullFieldForm == Component("Form", [title |-> "Contact", fields |-> <<JsonNull>>])
BareChart == Component("Chart", [type |-> "bar", showLegend |-> FALSE])

SpecOf(id, components) ==
    [id |-> id, name |-> "Supplied UI", description |-> "", components |-> components,
     layout |-> [type |-> "stack"], metadata |-> [version |-> 1]]

\* Specifications a holder of the context installs.
SuppliedSpecs ==
    {SpecOf(-1, <<IconOnlyButton>>),
     SpecOf(-2, <<>>),
     SpecOf(-3, <<NullTierPricing>>),
     SpecOf(-4, <<NullFieldForm>>),
     SpecOf(-5, <<TrappedModal, SmallButton>>)}

\* Components the stage harness builds specifications from.
Palette ==
    {IconOnlyButton, SmallButton, BareCard, OneTierPricing, NullTierPricing, TrappedModal,
     UnlabelledForm, NullFieldForm, BareChart, createCardSpec("hero"), createButtonSpec("cta")}

-----------------------------------------------------------------------------
(* Export server (src/mcp/export/server.ts).  A text is the sequence of its   *)
(* variable parts; the fixed parts of a template are left out.                *)

\* Order in which Object.keys / Object.entries list the properties of a props
\* object: the order in which the properties were written.
PropertyOrder ==
    <<"text", "variant", "title", "content", "imageUrl", "color", "hoverable", "size",
      "headline", "tiers">>

StringProperties == {"text", "variant", "title", "content", "imageUrl", "color", "size", "headline"}
BooleanProperties == {"hoverable"}

ObjectKeys(props) == SelectSeq(PropertyOrder, LAMBDA key : key \in DOMAIN props)

\* One JSX attribute; indent is the indentation JSON.stringify is asked for.
Attribute(key, value, indent) ==
    IF key \in StringProperties THEN [key |-> key, quoted |-> value]
    ELSE IF key \in BooleanProperties
    THEN (IF value THEN [key |-> key] ELSE [key |-> key, braced |-> "false"])
    ELSE [key |-> key, json |-> value, indent |-> indent]

\* The entries of props as attributes.  An undefined property is one the props
\* object does not hold; no property of a component is null itself (null
\* occurs inside lists only), so the null filter of generateReactCode keeps
\* every entry.
Attributes(props, indent) ==
    LET keys == ObjectKeys(props) IN
    [i \in 1..Len(keys) |-> Attribute(keys[i], props[keys[i]], indent)]

RECURSIVE Unique(_)
\* [...new Set(names)]: first occurrences, in order.
Unique(names) ==
    IF names = <<>> THEN <<>>
    ELSE LET rest == Unique(SubSeq(names, 1, Len(names) - 1))
             last == names[Len(names)]
         IN  IF \E i \in 1..Len(rest) : rest[i] = last THEN rest ELSE Append(rest, last)

generateReactCode(componentName, props) ==
    [import |-> componentName, function |-> <<"Example", componentName>>,
     element |-> [tag |-> componentName, attributes |-> Attributes(props, 0)]]

generatePageCode(components, opts) ==
    [useClient |-> opts.framework = "nextjs",
     imports |-> Unique([i \in 1..Len(components) |-> components[i].name]),
     elements |-> [i \in 1..Len(components) |->
                     [tag |-> components[i].name,
                      attributes |-> Attributes(components[i].props, 8)]],
     exportDefault |-> IF opts.framework = "nextjs" THEN "inline" ELSE "trailing"]

generateTailwindCSS(components) == "/* Custom styles for generated components */"

\* f.content.substring(0, 200) + (f.content.length > 200 ? "..." : "")
Preview(content) == [substring |-> <<0, 200>>, of |-> content]

export_react_code(components, given) ==
    LET resolved == [typescript |-> IF Present(given, "typescript") THEN given.typescript ELSE TRUE,
                     framework |-> IF Present(given, "framework") THEN given.framework ELSE "nextjs",
                     includeCSS |-> IF Present(given, "includeCSS") THEN given.includeCSS ELSE TRUE,
                     singleFile |-> IF Present(given, "singleFile") THEN given.singleFile ELSE TRUE]
        extension == IF resolved.typescript THEN "tsx" ELSE "jsx"
        codeFiles == IF resolved.singleFile
                     THEN <<[filename |-> <<"page", extension>>,
                             content |-> generatePageCode(components, resolved)]>>
                     ELSE [i \in 1..Len(components) |->
                             [filename |-> <<components[i].name, "Example", i - 1, extension>>,
                              content |-> generateReactCode(components[i].name,
                                                            components[i].props)]]
        files == IF resolved.includeCSS
                 THEN Append(codeFiles, [filename |-> <<"generated", "css">>,
                                         content |-> generateTailwindCSS(components)])
                 ELSE codeFiles
    IN  [success |-> TRUE, fileCount |-> Len(files),
         files |-> [i \in 1..Len(files) |->
                      [filename |-> files[i].filename, preview |-> Preview(files[i].content),
                       fullContent |-> files[i].content]]]

\* Date.prototype.toISOString of a time in milliseconds: seconds and
\* milliseconds are separate fields of the text.
toISOString(ms) == [seconds |-> ms \div 1000, milliseconds |-> ms % 1000]

export_json_schema(components, includeMetadata, now) ==
    [schema |-> "https://json-schema.org/draft/2020-12/schema",
     title |-> "UI-Smith Generated UI", version |-> "1.0.0",
     metadata |-> IF includeMetadata
                  THEN Some([generatedAt |-> toISOString(now), generatedBy |-> "UI-Smith",
                             componentCount |-> Len(components)])
                  ELSE None,
     components |-> [i \in 1..Len(components) |->
                       [id |-> <<"component", i - 1>>, type |-> components[i].name,
                        props |-> components[i].props]]]

export_component_tree(components) ==
    [tree |-> [root |-> "GeneratedPage",
               children |-> [i \in 1..Len(components) |->
                               [id |-> <<"node", i - 1>>, component |-> components[i].name,
                                props |-> ObjectKeys(components[i].props), children |-> <<>>]]],
     visualization |->
         <<"GeneratedPage">> \o
         [i \in 1..Len(components) |->
            LET keys == ObjectKeys(components[i].props) IN
            [last |-> i = Len(components), name |-> components[i].name,
             propsList |-> SubSeq(keys, 1, IF Len(keys) > 3 THEN 3 ELSE Len(keys)),
             ellipsis |-> Len(keys) > 3]]]

\* One call of a tool of the server at time now.
ExportTool(call, components, now) ==
    IF call.tool = "export_react_code" THEN export_react_code(components, call.options)
    ELSE IF call.tool = "export_json_schema"
    THEN export_json_schema(components, call.includeMetadata, now)
    ELSE export_component_tree(components)

-----------------------------------------------------------------------------
(* Stage harness: the critique and validation stages applied to a specification *)

OrchestratorVars ==
    <<options, context, messages, uuidCounter, pc, entry, userMessage, localUI, pending,
      result, calls, returns, logStart, before, requests, resets, okRuns>>

\* uiSpec is the specification object handed to the stages, as it is now;
\* given is what it was when it was built.
\* request is the request the specification was generated from, if it was.
NoProbe ==
    [uiSpec |-> SpecOf(0, <<>>), given |-> SpecOf(0, <<>>), request |-> None,
     modified |-> None, critique |-> None, validation |-> None]

ProbeOf(components) ==
    [NoProbe EXCEPT !.uiSpec.components = components, !.given.components = components]

ProbeAppend(component) ==
    /\ Len(probe.given.components) < MaxProbeLen
    /\ probe' = ProbeOf(Append(probe.given.components, component))
    /\ UNCHANGED OrchestratorVars

ProbeRepeat(component, n) ==
    /\ probe.given.components = <<>>
    /\ probe' = ProbeOf([i \in 1..n |-> component])
    /\ UNCHANGED OrchestratorVars

\* Requests handed to the architect with no current specification.
CreateRequests ==
    {"asdf", "Create a SaaS pricing page", "a button", "feature list", "hero",
     "landing page", "modern", "contact form cta"}

ProbeGenerate(request) ==
    /\ probe = NoProbe
    /\ \E response \in {architectProcessRequest(request, context, 1)} :
          /\ response.success
          /\ probe' = [NoProbe EXCEPT !.uiSpec = Get(response.data),
                                      !.given = Get(response.data),
                                      !.request = Some(request)]
    /\ UNCHANGED OrchestratorVars

\* Requests handed to modifyExistingUI.
ModifyRequests == {"Change it to be bigger", "add button"}

ProbeModify(request) ==
    /\ probe.modified = None
    /\ probe' = [probe EXCEPT
                    !.modified = Some(modifyExistingUI(request, probe.uiSpec, 1)),
                    !.uiSpec = modifyExistingUIInput(request, probe.uiSpec, 1)]
    /\ UNCHANGED OrchestratorVars

ProbeReview ==
    /\ probe.critique = None
    /\ probe' = [probe EXCEPT !.critique = Some(review(probe.uiSpec)),
                              !.uiSpec = reviewInput(probe.uiSpec)]
    /\ UNCHANGED OrchestratorVars

ProbeValidate ==
    /\ probe.validation = None
    /\ probe' = [probe EXCEPT !.validation = Some(validate(probe.uiSpec)),
                              !.uiSpec = validateInput(probe.uiSpec)]
    /\ UNCHANGED OrchestratorVars

-----------------------------------------------------------------------------
(* Export harness: the tools of the export server called on one component list *)

ExportPalette == {SmallButton, OneTierPricing, createCardSpec("hero")}

\* Calls a client makes: the tool and its arguments other than the components.
ExportCalls ==
    {[tool |-> "export_react_code", options |-> <<>>],
     [tool |-> "export_react_code",
      options |-> [typescript |-> FALSE, framework |-> "vite", includeCSS |-> FALSE,
                   singleFile |-> FALSE]],
     [tool |-> "export_json_schema", includeMetadata |-> TRUE],
     [tool |-> "export_json_schema", includeMetadata |-> FALSE],
     [tool |-> "export_component_tree"]}

NoExports == [components |-> <<>>, now |-> 0, call |-> None, outputs |-> <<>>]

ExportAppend(component) ==
    /\ Len(probe.components) < MaxProbeLen
    /\ probe.outputs = <<>>
    /\ probe' = [probe EXCEPT !.components = Append(@, component)]
    /\ UNCHANGED OrchestratorVars

\* Time passes between two calls.
ExportTick ==
    /\ probe.now < MaxClock
    /\ probe' = [probe EXCEPT !.now = @ + 1]
    /\ UNCHANGED OrchestratorVars

\* The first call of a tool, and a second call with the same arguments.
ExportCall(call) ==
    /\ Len(probe.outputs) < 2
    /\ probe.call \in {None, Some(call)}
    /\ probe' = [probe EXCEPT !.call = Some(call),
                              !.outputs = Append(@, ExportTool(call, probe.components,
                                                               probe.now))]
    /\ UNCHANGED OrchestratorVars

-----------------------------------------------------------------------------
(* Overlapping runs: a second pipeline run that is started while the first    *)
(* one is in flight, either by processRequest on the same orchestrator or by  *)
(* generateUI, which constructs an orchestrator of its own                    *)

\* The second run: the locals of its processRequest call and, when it runs
\* on an orchestrator of its own, that orchestrator's context and messages.
NoOther ==
    [started |-> FALSE, shared |-> FALSE, userMessage |-> "",
     context |-> [conversationId |-> 0, currentUI |-> None, history |-> <<>>],
     messages |-> <<>>, localUI |-> None, pending |-> NoResponse, result |-> NoResult,
     calls |-> <<>>, returns |-> <<>>, pc |-> "idle"]

\* The part of the state the second run reads and writes: this.context and
\* this.messages are those of the orchestrator it was called on.
OtherSt(run) ==
    [context |-> IF run.shared THEN context ELSE run.context,
     messages |-> IF run.shared THEN messages ELSE run.messages,
     uuidCounter |-> uuidCounter,
     localUI |-> run.localUI, pending |-> run.pending, result |-> run.result,
     calls |-> run.calls, returns |-> run.returns, pc |-> run.pc]

OtherCommit(run, st) ==
    /\ uuidCounter' = st.uuidCounter
    /\ IF run.shared
       THEN context' = st.context /\ messages' = st.messages
       ELSE UNCHANGED <<context, messages>>
    /\ probe' = [run EXCEPT !.started = TRUE,
                            !.context = IF run.shared THEN @ ELSE st.context,
                            !.messages = IF run.shared THEN @ ELSE st.messages,
                            !.localUI = st.localUI,
                            !.pending = st.pending,
                            !.result = st.result,
                            !.calls = st.calls,
                            !.returns = st.returns,
                            !.pc = st.pc]
    /\ UNCHANGED <<options, pc, entry, userMessage, localUI, pending, result, calls,
                   returns, logStart, before, requests, resets, okRuns>>

OverlapRequests == {"Create a SaaS pricing page", "Change it to be bigger"}

\* The first call on the orchestrator.
FirstProcessRequest(message) ==
    /\ requests = 0
    /\ ProcessRequest(message)

\* Where the second run starts: processRequest on the orchestrator whose
\* first call is awaiting a stage, or generateUI (lines 362-368), which
\* constructs an orchestrator with the same options and calls processRequest
\* on it.
OtherStart(shared, message) ==
    /\ ~probe.started
    /\ shared => pc \in {"awaitArchitect", "awaitReview", "awaitValidate", "awaitExport"}
    /\ \E run \in {[NoOther EXCEPT !.shared = shared, !.userMessage = message,
                                   !.context.conversationId =
                                       IF shared THEN @ ELSE uuidCounter + 1]} :
          \E st \in {processRequestStart(
                         [OtherSt(run) EXCEPT !.uuidCounter =
                                                 IF shared THEN @ ELSE @ + 1], message)} :
              OtherCommit(run, st)

Runs == {"first", "other"}

RunSt(who) == IF who = "first" THEN Cur ELSE OtherSt(probe)

RunCommit(who, st) ==
    IF who = "first"
    THEN /\ Commit(st)
         /\ CountRun(st)
         /\ UNCHANGED <<options, entry, userMessage, before, logStart, requests, resets,
                        probe>>
    ELSE OtherCommit(probe, st)

\* The stage awaited by one of the two runs hands control back.
OverlapArchitectReturns(who) ==
    /\ RunSt(who).pc = "awaitArchitect"
    /\ \E st \in {AfterArchitect(RunSt(who))} : RunCommit(who, st)

OverlapCriticReturns(who) ==
    /\ RunSt(who).pc = "awaitReview"
    /\ \E st \in {AfterCritique(RunSt(who))} : RunCommit(who, st)

OverlapValidationReturns(who) ==
    /\ RunSt(who).pc = "awaitValidate"
    /\ \E st \in {AfterValidation(RunSt(who))} : RunCommit(who, st)

OverlapExportReturns(who, outcome) ==
    /\ RunSt(who).pc = "awaitExport"
    /\ \E st \in {AfterExport(RunSt(who), outcome)} : RunCommit(who, st)

-----------------------------------------------------------------------------
(* Classification harness: the architect handed one request, with or without  *)
(* a prior specification in its context                                       *)

\* Requests with a modify word, a create word, both, and neither.
ClassifyRequests ==
    {"asdf", "add button", "hero",
     "Change it to be bigger", "fix the form", "more modern",
     "Create a SaaS pricing page", "I need a dashboard", "build a chart",
     "make it bigger", "MAKE IT BIGGER", "create a new one instead", "Update the design"}

\* Specifications the context of the architect holds as the current one.
PriorSpecs == SuppliedSpecs \cup {createNewUI(request, 0) : request \in CreateRequests}

NoClassification == [prior |-> None, request |-> None, type |-> "", response |-> NoResponse]

\* createUIArchitectAgent(context) with a current specification in the context.
ClassifySetPrior(uiSpec) ==
    /\ probe = NoClassification
    /\ probe' = [probe EXCEPT !.prior = Some(uiSpec)]
    /\ UNCHANGED OrchestratorVars

\* UIArchitectAgent.processRequest(request), and the type it took the request for.
Classify(request) ==
    /\ probe.request = None
    /\ \E ctx \in {[conversationId |-> 1, currentUI |-> probe.prior, history |-> <<>>]} :
          \E response \in {architectProcessRequest(request, ctx, 1)} :
              probe' = [probe EXCEPT !.request = Some(request),
                                     !.type = analyzeRequestType(request, ctx),
                                     !.response = [success |-> response.success,
                                                   data |-> response.data,
                                                   errors |-> response.errors]]
    /\ UNCHANGED OrchestratorVars

-----------------------------------------------------------------------------
(* Patch harness: one property patch applied to a specification by each of    *)
(* the stages that patch, at an index inside or outside its component list    *)

PatchPalette == {SmallButton, BareCard, TrappedModal}

\* Requests whose modifications are updates of component 0.
UpdateRequests == {"Change it to be bigger", "more modern", "make it smaller please"}

NoPatch == [uiSpec |-> SpecOf(0, <<>>), patched |-> None]

PatchAppend(component) ==
    /\ probe.patched = None
    /\ Len(probe.uiSpec.components) < MaxProbeLen
    /\ probe' = [probe EXCEPT !.uiSpec.components = Append(@, component)]
    /\ UNCHANGED OrchestratorVars

\* DesignCriticAgent.applyImprovements on feedback with one improvement.
PatchImprove(index, proposed) ==
    /\ probe.patched = None
    /\ probe' = [probe EXCEPT !.patched =
                    Some([stage |-> "design-critic", index |-> index, success |-> TRUE,
                          data |-> Some(applyImprovements(
                                       probe.uiSpec,
                                       [improvements |-> <<Improvement(index, Some(proposed))>>]))])]
    /\ UNCHANGED OrchestratorVars

\* AccessibilityAgent.applyAccessibilityFixes on a report with one violation.
PatchFix(index, rule) ==
    /\ probe.patched = None
    /\ probe' = [probe EXCEPT !.patched =
                    Some([stage |-> "accessibility", index |-> index, success |-> TRUE,
                          data |-> Some(applyAccessibilityFixes(
                                       probe.uiSpec,
                                       [violations |-> <<Violation(rule, "serious", index)>>]))])]
    /\ UNCHANGED OrchestratorVars

\* UIArchitectAgent.processRequest with the specification as the current one
\* and a request that updates component 0.
PatchUpdate(request) ==
    /\ probe.patched = None
    /\ \E response \in {architectProcessRequest(
                            request,
                            [conversationId |-> 1, currentUI |-> Some(probe.uiSpec),
                             history |-> <<>>], 1)} :
          probe' = [probe EXCEPT !.patched =
                       Some([stage |-> "ui-architect", index |-> 0,
                             success |-> response.success, data |-> response.data])]
    /\ UNCHANGED OrchestratorVars

-----------------------------------------------------------------------------
(* Specifications *)

\* The orchestrator after construction (lines 91-97).
InitOrchestrator ==
    /\ options \in OptionChoices
    /\ context = [conversationId |-> 1, currentUI |-> None, history |-> <<>>]
    /\ messages = <<>>
    /\ uuidCounter = 1
    /\ pc = "idle"
    /\ entry = "constructor"
    /\ userMessage = ""
    /\ localUI = None
    /\ pending = NoResponse
    /\ result = NoResult
    /\ calls = <<>>
    /\ returns = <<>>
    /\ logStart = 0
    /\ before = None
    /\ requests = 0
    /\ resets = 0
    /\ okRuns = 0

Init == InitOrchestrator /\ probe = NoProbe

\* The public methods called with the given requests, and the stages.
NextCalls(given) ==
    \/ \E message \in given : ProcessRequest(message)
    \/ \E message \in given : ModifyUI(message)
    \/ ArchitectReturns
    \/ CriticReturns
    \/ ValidationReturns
    \/ \E outcome \in ExportOutcomes : ExportReturns(outcome)
    \/ Reset

NextAPI == NextCalls(APIRequests)

Next ==
    \/ NextCalls(Requests)
    \/ \E uiSpec \in SuppliedSpecs : getContextSetCurrentUI(uiSpec)

\* The public methods, the stages, and a holder of the context.
Spec == Init /\ [][Next]_vars

\* The public methods and the stages only.
SpecAPI == Init /\ [][NextAPI]_vars

NextStages ==
    \/ \E request \in CreateRequests : ProbeGenerate(request)
    \/ \E component \in Palette : ProbeAppend(component)
    \/ \E component \in Palette : \E n \in (MaxProbeLen + 1)..MaxRepeat :
          ProbeRepeat(component, n)
    \/ \E request \in ModifyRequests : ProbeModify(request)
    \/ ProbeReview
    \/ ProbeValidate

\* The critique and validation stages on specifications built from the palette.
InitStages == Init /\ options = defaultOptions

SpecStages == InitStages /\ [][NextStages]_vars

NextExport ==
    \/ \E component \in ExportPalette : ExportAppend(component)
    \/ ExportTick
    \/ \E call \in ExportCalls : ExportCall(call)

InitExport == InitOrchestrator /\ options = defaultOptions /\ probe = NoExports

\* The tools of the export server on component lists built from the palette.
SpecExport == InitExport /\ [][NextExport]_vars

NextOverlap ==
    \/ \E message \in OverlapRequests : FirstProcessRequest(message)
    \/ \E shared \in BOOLEAN : \E message \in OverlapRequests : OtherStart(shared, message)
    \/ \E who \in Runs : OverlapArchitectReturns(who)
    \/ \E who \in Runs : OverlapCriticReturns(who)
    \/ \E who \in Runs : OverlapValidationReturns(who)
    \/ \E who \in Runs : \E outcome \in ExportOutcomes : OverlapExportReturns(who, outcome)

InitOverlap == InitOrchestrator /\ probe = NoOther

\* Two pipeline runs that overlap at their await points.
SpecOverlap == InitOverlap /\ [][NextOverlap]_vars

NextClassify ==
    \/ \E uiSpec \in PriorSpecs : ClassifySetPrior(uiSpec)
    \/ \E request \in ClassifyRequests : Classify(request)

InitClassify == InitOrchestrator /\ options = defaultOptions /\ probe = NoClassification

\* The architect on one request, for every prior specification and wording.
SpecClassify == InitClassify /\ [][NextClassify]_vars

NextPatch ==
    \/ \E component \in PatchPalette : PatchAppend(component)
    \/ \E index \in 0..MaxProbeLen : \E proposed \in {[size |-> "md"], [title |-> "Section Title"]} :
          PatchImprove(index, proposed)
    \/ \E index \in 0..MaxProbeLen : \E rule \in {"modal-name", "chart-label"} :
          PatchFix(index, rule)
    \/ \E request \in UpdateRequests : PatchUpdate(request)

InitPatch == InitOrchestrator /\ options = defaultOptions /\ probe = NoPatch

\* One patch applied to specifications built from the palette.
SpecPatch == InitPatch /\ [][NextPatch]_vars

-----------------------------------------------------------------------------
(* Properties *)

Range(seq) == {seq[i] : i \in 1..Len(seq)}

RunReturned == pc = "returned" /\ calls # <<>>

\* Messages logged by the last call.
RunMessages == SubSeq(messages, logStart + 1, Len(messages))

StageReturned(agent) == \E i \in 1..Len(returns) : returns[i].agent = agent

StageFailed(agent) ==
    \E i \in 1..Len(returns) : returns[i].agent = agent /\ ~returns[i].success

ErrorsOf(agent) == {i \in 1..Len(result.errors) : result.errors[i].agent = agent}

CriticalInReport ==
    IF IsSome(result.accessibilityReport)
    THEN {i \in 1..Len(Get(result.accessibilityReport).violations) :
             Get(result.accessibilityReport).violations[i].impact = "critical"}
    ELSE {}

\* Validation has returned and its report holds a critical violation.
ValidationBlocking == StageReturned("accessibility") /\ CriticalInReport # {}

\* C1: when validation is blocking (its report holds a critical violation) the
\* run ends there: Export is not invoked, no EXPORT_CODE message is logged, the
\* result has no export package and success is false; after any other
\* validation outcome Export is invoked when exportOnSuccess is on.
C1_BlockingValidationHalts ==
    /\ ValidationBlocking =>
          /\ pc = "returned"
          /\ "export-engineer" \notin Range(calls)
          /\ \A i \in 1..Len(RunMessages) : RunMessages[i].action # "EXPORT_CODE"
          /\ \A i \in 1..Len(result.messages) :
                i > logStart => result.messages[i].action # "EXPORT_CODE"
          /\ result.exportPackage = None
          /\ ~result.success
    /\ (StageReturned("accessibility") /\ ~ValidationBlocking /\ options.exportOnSuccess) =>
          "export-engineer" \in Range(calls)

C1_Witness == ValidationBlocking /\ pc = "returned" /\ options.exportOnSuccess

AccessibilityBlockingError ==
    \E i \in ErrorsOf("accessibility") :
        SubSeq(result.errors[i].code, 1, 5) = "A11Y_"

CaughtException ==
    \E i \in ErrorsOf("orchestrator") : result.errors[i].code = "ORCHESTRATION_ERROR"

\* C2 as stated: at the end of every processRequest run, success is true
\* exactly when the result has a specification and no accessibility-tagged
\* blocking error.
C2_Original ==
    RunReturned =>
        (result.success <=> (IsSome(result.uiSpec) /\ ~AccessibilityBlockingError))

\* C2: at the end of every processRequest run that was not cut short by a
\* caught exception, success is true exactly when the result has a
\* specification and no accessibility-tagged blocking error; design-critic and
\* export-engineer errors never change the flag.  A run cut short by a caught
\* exception returns success = false.
C2_SuccessFlag ==
    RunReturned =>
        (result.success <=>
            (IsSome(result.uiSpec) /\ ~AccessibilityBlockingError /\ ~CaughtException))

C2_Witness ==
    /\ RunReturned
    /\ result.success
    /\ ErrorsOf("design-critic") # {}
    /\ ErrorsOf("export-engineer") # {}

C4_GenerationFailureIsFatal ==
    (StageFailed("ui-architect") /\ entry \in {"processRequest", "modifyUI"}) =>
        /\ pc = "returned"
        /\ ~result.success
        /\ Len(result.errors) = 1
        /\ result.errors[1].agent = "ui-architect"
        /\ result.uiSpec = None
        /\ calls = <<"ui-architect">>
        /\ context.currentUI = before

C4_Witness ==
    /\ StageFailed("ui-architect")
    /\ entry \in {"processRequest", "modifyUI"}
    /\ IsSome(before)

NoUIResult ==
    /\ pc = "returned"
    /\ calls = <<>>
    /\ ~result.success
    /\ result.errors = <<[agent |-> "orchestrator", code |-> "NO_UI"]>>
    /\ result.uiSpec = None

\* C5 as stated: modifyUI fails with NO_UI whenever no run has returned
\* success = true since construction or the last reset; so a modifyUI call that
\* enters the pipeline was preceded by a successful run.
C5_Original ==
    (entry = "modifyUI" /\ pc = "awaitArchitect") => okRuns > 0

\* C5: modifyUI fails with NO_UI exactly when the orchestrator holds no current
\* specification at the call.  A run that got past generation leaves one, also
\* when it returned success = false, and every successful run leaves one.
C5_ModifyNeedsCurrentUI ==
    /\ entry = "modifyUI" => (NoUIResult <=> before = None)
    /\ okRuns > 0 => IsSome(context.currentUI)

C5_Witness ==
    /\ entry = "modifyUI"
    /\ pc = "awaitArchitect"
    /\ okRuns = 0
    /\ IsSome(before)

\* The architect has just been handed a request that holds a modify trigger
\* word while no prior specification exists.
ModifyWordingWithoutPrior ==
    /\ pc = "awaitArchitect"
    /\ before = None
    /\ \E k \in modifyKeywords : Includes(toLowerCase(userMessage), k)

\* C6 as stated: a request with a modify trigger word issued when no prior
\* specification exists fails with NO_EXISTING_UI and creates no specification.
C6_Original ==
    ModifyWordingWithoutPrior =>
        /\ ~pending.success
        /\ pending.errors = <<"NO_EXISTING_UI">>
        /\ pending.data = None

\* C6: a request with a modify trigger word issued when no prior specification
\* exists is classified as create: generation succeeds with a newly created
\* specification (version 1, described by the request) and does not fail with
\* NO_EXISTING_UI.
C6_ModifyWordingCreates ==
    ModifyWordingWithoutPrior =>
        /\ pending.success
        /\ pending.errors = <<>>
        /\ IsSome(pending.data)
        /\ Get(pending.data).metadata.version = 1
        /\ Get(pending.data).description = userMessage
        /\ Get(pending.data).id = uuidCounter
        /\ Len(Get(pending.data).components) > 0

C6_Witness == ModifyWordingWithoutPrior /\ entry = "processRequest"

ProbeReport == Get(Get(probe.validation).data).report

ProbeValidated == IsSome(probe.validation) /\ IsSome(Get(probe.validation).data)

ImpactCount(report, impact) ==
    Cardinality({i \in 1..Len(report.violations) : report.violations[i].impact = impact})

\* C7: the report of every validated specification has passed = (number of
\* critical violations = 0), whatever other violations and warnings it
\* holds, and the stage's success is the same boolean (blocking = ~passed).
C7_PassedIffNoCritical ==
    ProbeValidated =>
        /\ ProbeReport.passed <=> (ImpactCount(ProbeReport, "critical") = 0)
        /\ Get(probe.validation).success <=> ProbeReport.passed

C7_Witness ==
    /\ ProbeValidated
    /\ ImpactCount(ProbeReport, "critical") = 0
    /\ ImpactCount(ProbeReport, "serious") > 0
    /\ Len(ProbeReport.warnings) > 0
    /\ ProbeReport.passed

ProbeReviewed ==
    /\ IsSome(probe.critique)
    /\ IsSome(Get(probe.critique).data)
    /\ Present(Get(Get(probe.critique).data), "feedback")

ProbeFeedback == Get(Get(probe.critique).data).feedback

\* C8: the critique score and the accessibility score of every specification
\* are integers between 0 and 100.
C8_ScoresInRange ==
    /\ ProbeReviewed => ProbeFeedback.score \in 0..100
    /\ ProbeValidated => ProbeReport.score \in 0..100

C8_Witness ==
    /\ ProbeValidated
    /\ ProbeReport.score = 0
    /\ 25 * ImpactCount(ProbeReport, "critical") > 100

SeverityCount(feedback, severity) ==
    Cardinality({i \in 1..Len(feedback.issues) : feedback.issues[i].severity = severity})

Penalties(feedback) ==
    20 * SeverityCount(feedback, "error") + 10 * SeverityCount(feedback, "warning")
    + 5 * SeverityCount(feedback, "suggestion")

HasBonus(feedback) == Len(feedback.improvements) \in 1..3

\* C9 as stated: the penalties are floored at 0 first and the bonus of 5
\* (capped at 100) is added after the floor.
C9_Original ==
    ProbeReviewed =>
        LET floored == IF Penalties(ProbeFeedback) > 100 THEN 0
                       ELSE 100 - Penalties(ProbeFeedback)
        IN  ProbeFeedback.score =
                IF HasBonus(ProbeFeedback)
                THEN (IF floored + 5 > 100 THEN 100 ELSE floored + 5)
                ELSE floored

\* C9: the critique score is 100 minus 20 per error, 10 per warning and 5 per
\* suggestion, plus 5 (capped at 100) when there are 1 to 3 pending
\* improvements, and the floor at 0 is applied last, after the bonus.
C9_FloorAfterBonus ==
    ProbeReviewed =>
        LET raw == 100 - Penalties(ProbeFeedback)
            bonused == IF HasBonus(ProbeFeedback)
                       THEN (IF raw + 5 > 100 THEN 100 ELSE raw + 5)
                       ELSE raw
        IN  ProbeFeedback.score = IF bonused < 0 THEN 0 ELSE bonused

C9_Witness ==
    /\ ProbeReviewed
    /\ Penalties(ProbeFeedback) > 100
    /\ HasBonus(ProbeFeedback)
    /\ ProbeFeedback.score = 0

NoUIReturned ==
    /\ pc' = "returned"
    /\ calls' = <<>>
    /\ ~result'.success
    /\ result'.errors = <<[agent |-> "orchestrator", code |-> "NO_UI"]>>

\* C10: a reset leaves a fresh context: a conversation id never issued before,
\* an empty history, an empty message list and no current specification, so
\* getCurrentUI() returns nothing; and a modifyUI that follows it fails with
\* NO_UI.
C10_ResetIsFresh ==
    [][/\ (entry' = "reset" /\ resets' = resets + 1) =>
              /\ context'.conversationId > uuidCounter
              /\ context'.conversationId # context.conversationId
              /\ context'.history = <<>>
              /\ messages' = <<>>
              /\ context'.currentUI = None
              /\ getCurrentUI' = None
       /\ (entry = "reset" /\ entry' = "modifyUI") => NoUIReturned]_vars

\* A reset that followed a successful run, with a call still to come.
C10_Witness ==
    /\ entry = "reset"
    /\ result.success
    /\ IsSome(result.uiSpec)
    /\ context.currentUI = None
    /\ messages = <<>>
    /\ requests < MaxRequests

Generated == entry \in {"processRequest", "modifyUI"} /\ IsSome(result.uiSpec)

CurrentVersion == Get(context.currentUI).metadata.version

\* The last call found a current specification and its request was taken as a
\* modification of it: it has a modify trigger word or no create trigger word.
TakenAsModify ==
    /\ IsSome(before)
    /\ LET lowerMessage == toLowerCase(userMessage) IN
       hasModifyKeyword(lowerMessage) \/ ~hasCreateKeyword(lowerMessage)

AllCallsSucceeded == resets = 0 /\ requests >= 2 /\ okRuns = requests

\* C12 as stated: over any sequence of successful processRequest/modifyUI calls
\* without reset the version of the current specification never decreases.
C12_Original ==
    (RunReturned /\ Generated /\ AllCallsSucceeded /\ IsSome(before)) =>
        CurrentVersion >= Get(before).metadata.version

\* C12: a created specification has version 1; a successful modification yields
\* the previous version + 1 under a newly issued id; a call taken as create
\* replaces the current specification by one of version 1 whatever the version
\* before, so the version never decreases only while the calls are modifications.
C12_VersionRule ==
    Generated =>
        IF TakenAsModify
        THEN /\ CurrentVersion = Get(before).metadata.version + 1
             /\ Get(context.currentUI).id > Get(before).id
             /\ Get(context.currentUI).id <= uuidCounter
        ELSE CurrentVersion = 1

\* A second successful modification in a row.
C12_Witness ==
    /\ RunReturned /\ Generated /\ AllCallsSucceeded
    /\ TakenAsModify
    /\ Get(before).metadata.version = 2
    /\ CurrentVersion = 3

ImprovedUI == Get(Get(probe.critique).data).improvedUI

FixedUI == Get(Get(probe.validation).data).fixedUI

Reissued(after, received) ==
    /\ after.id # received.id
    /\ after.metadata.version = received.metadata.version + 1

\* C13 as stated: whenever the critique or the validation applies a change to
\* the specification, the resulting specification carries a reissued id and a
\* bumped version relative to the specification the stage received.
C13_Original ==
    /\ (ProbeReviewed /\ ImprovedUI.components # probe.given.components) =>
           Reissued(ImprovedUI, probe.given)
    /\ (ProbeValidated /\ FixedUI.components # probe.given.components) =>
           Reissued(FixedUI, probe.given)

\* A processRequest run is in flight or has returned.
InRun == entry \in {"processRequest", "modifyUI"} /\ calls # <<>>

ExportedTwice == Len(probe.outputs) = 2

\* C15 as stated: two calls of an export tool on the same components and the
\* same options produce identical output, whatever the tool and whatever the
\* times of the two calls.
C15_Original == ExportedTwice => probe.outputs[1] = probe.outputs[2]

ProbeGenerated == IsSome(probe.request)

ProbeNames == [i \in 1..Len(probe.given.components) |-> probe.given.components[i].name]

\* The request matches a term of at least one topic of the keyword table.
TopicMatched ==
    \E topic \in DOMAIN componentKeywords :
        \E term \in componentKeywords[topic] : Includes(toLowerCase(Get(probe.request)), term)

\* The generated components are the generic pair, a Card followed by a Button.
IsFallback ==
    probe.given.components =
        <<createCardSpec(Get(probe.request)), createButtonSpec(Get(probe.request))>>

TemplateSelected ==
    LET lowerDesc == toLowerCase(Get(probe.request)) IN
    \/ \E topic \in DOMAIN componentKeywords \ {"button"} :
          \E term \in componentKeywords[topic] : Includes(lowerDesc, term)
    \/ Includes(lowerDesc, "hero")
    \/ Includes(lowerDesc, "feature")

PricingRun ==
    /\ entry = "processRequest"
    /\ userMessage = "Create a SaaS pricing page"
    /\ options = defaultOptions
    /\ requests = 1
    /\ resets = 0
    /\ before = None

IsPricingPage(uiSpec) ==
    /\ Len(uiSpec.components) = 1
    /\ uiSpec.components[1].name = "PricingTable"
    /\ uiSpec.components[1].props.showBillingToggle = TRUE
    /\ Len(uiSpec.components[1].props.tiers) \in 1..5

AllStages == <<"ui-architect", "design-critic", "accessibility", "export-engineer">>

UnnamedIconButtons(uiSpec) ==
    {i \in 0..(Len(uiSpec.components) - 1) :
        /\ uiSpec.components[i + 1].name = "Button"
        /\ Flag(uiSpec.components[i + 1].props, "iconOnly")
        /\ ~Text(uiSpec.components[i + 1].props, "ariaLabel")
        /\ ~Text(uiSpec.components[i + 1].props, "aria-label")}

ButtonNameViolations(report, index) ==
    {v \in 1..Len(report.violations) :
        /\ report.violations[v].rule = "button-name"
        /\ report.violations[v].componentIndex = index}

\* The validation stage has been handed a specification with exactly one
\* icon-only Button without accessible name.
ValidatingUnnamedIconButton ==
    /\ pc = "awaitValidate"
    /\ Cardinality(UnnamedIconButtons(Get(localUI))) = 1

HaltedOnButtonName ==
    /\ pc' = "returned"
    /\ calls' = calls
    /\ \A i \in 1..Len(calls') : calls'[i] # "export-engineer"
    /\ ~result'.success
    /\ result'.exportPackage = None
    /\ IsSome(result'.accessibilityReport)
    /\ ~Get(result'.accessibilityReport).passed

\* C18: validating a specification that contains one icon-only Button with
\* neither ariaLabel nor aria-label yields exactly one violation of the
\* button-name rule for that component, of critical impact, and a report with
\* passed = FALSE; the orchestrator then returns without invoking the export
\* stage.
C18_IconOnlyButtonHalts ==
    [][ValidatingUnnamedIconButton =>
          /\ IsSome(pending.data)
          /\ \A index \in UnnamedIconButtons(Get(localUI)) :
                LET report == Get(pending.data).report IN
                /\ Cardinality(ButtonNameViolations(report, index)) = 1
                /\ \A v \in ButtonNameViolations(report, index) :
                      report.violations[v].impact = "critical"
                /\ ~report.passed
          /\ ~pending.success
          /\ HaltedOnButtonName]_vars

\* A run halted on a report whose only violation is the button-name violation.
C18_Witness ==
    /\ InRun /\ pc = "returned"
    /\ calls = <<"ui-architect", "design-critic", "accessibility">>
    /\ IsSome(result.accessibilityReport)
    /\ Len(Get(result.accessibilityReport).violations) = 1
    /\ Get(result.accessibilityReport).violations[1].rule = "button-name"
    /\ Get(result.accessibilityReport).violations[1].impact = "critical"
    /\ ~Get(result.accessibilityReport).passed
    /\ ~result.success

OrchestrationError == [agent |-> "orchestrator", code |-> "ORCHESTRATION_ERROR"]

\* The step out of the awaited export call was an exception caught by
\* processRequest.
ExceptionCaught ==
    /\ result'.errors = Append(result.errors, OrchestrationError)
    /\ ~result'.success
    /\ result'.exportPackage = None

\* C19: a processRequest call whose export stage was invoked always returns
\* to its caller; when an exception escaped the stage call the returned result
\* has one more error, (orchestrator, ORCHESTRATION_ERROR), success = FALSE
\* and no export package, and in every case the returned result carries all
\* messages logged so far.  An ORCHESTRATION_ERROR only ever appears in a
\* result as the call returns it, with success = FALSE and all messages.
C19_ExceptionsAreCaught ==
    [][/\ pc = "awaitExport" =>
             /\ pc' = "returned"
             /\ messages' = messages
             /\ result'.messages = messages
             /\ Len(result'.messages) = logStart + Len(calls) + 1
             /\ \/ ExceptionCaught
                \/ /\ IsSome(result'.exportPackage)
                   /\ result'.errors = result.errors
                \/ /\ result'.exportPackage = None
                   /\ Len(result'.errors) = Len(result.errors) + 1
                   /\ result'.errors[Len(result'.errors)].agent = "export-engineer"
       /\ (~CaughtException /\ CaughtException') =>
             /\ pc' = "returned"
             /\ ~result'.success
             /\ result'.messages = messages']_vars

\* The first run of an orchestrator returned with a caught exception and with
\* the specification it had generated.
C19_Witness ==
    /\ InRun /\ pc = "returned"
    /\ Len(result.errors) > 0
    /\ result.errors[Len(result.errors)] = OrchestrationError
    /\ ~result.success
    /\ IsSome(result.uiSpec)
    /\ result.messages = messages
    /\ logStart = 0

\* The critique stage has answered and its answer is blocking (success = FALSE).
CritiqueBlocked == pc = "awaitReview" /\ ~pending.success

\* The answer of the critique stage holds feedback with an issue of severity
\* error.
CritiqueFoundError ==
    /\ pc = "awaitReview"
    /\ IsSome(pending.data)
    /\ Present(Get(pending.data), "feedback")
    /\ SeverityCount(Get(pending.data).feedback, "error") > 0

\* C20 as stated: the critique is blocking iff at least one issue has severity
\* error; a blocking answer carries the feedback and the improved
\* specification, and result.designFeedback is populated for a run whose
\* critique was blocking.
C20_Original ==
    /\ pc = "awaitReview" => (CritiqueBlocked <=> CritiqueFoundError)
    /\ CritiqueBlocked =>
          /\ IsSome(pending.data)
          /\ Present(Get(pending.data), "feedback")
          /\ Present(Get(pending.data), "improvedUI")
    /\ (InRun /\ StageFailed("design-critic")) => IsSome(result.designFeedback)

\* A newly constructed orchestrator before its first call.
FreshSt ==
    [context |-> [conversationId |-> 1, currentUI |-> None, history |-> <<>>],
     messages |-> <<>>, uuidCounter |-> 1, localUI |-> None, pending |-> NoResponse,
     result |-> NoResult, calls |-> <<>>, returns |-> <<>>, pc |-> "idle"]

\* A call followed to its return with no other call in between.
RECURSIVE RunToEnd(_, _)
RunToEnd(st, outcome) ==
    IF st.pc = "awaitArchitect" THEN RunToEnd(AfterArchitect(st), outcome)
    ELSE IF st.pc = "awaitReview" THEN RunToEnd(AfterCritique(st), outcome)
    ELSE IF st.pc = "awaitValidate" THEN RunToEnd(AfterValidation(st), outcome)
    ELSE IF st.pc = "awaitExport" THEN RunToEnd(AfterExport(st, outcome), outcome)
    ELSE st

\* What processRequest(message) returns on a newly constructed orchestrator
\* when it is the only call.
SoloResult(message, outcome) ==
    RunToEnd(processRequestStart(FreshSt, message), outcome).result

\* How the export stage answered in the run that returned res.
ExportOutcomeOf(res) ==
    IF \E i \in 1..Len(res.errors) : res.errors[i].code = "ORCHESTRATION_ERROR" THEN "threw"
    ELSE IF IsSome(res.exportPackage) THEN "ok"
    ELSE "failed"

\* A result without the uuids it carries.
Unidentified(res) ==
    [success |-> res.success,
     uiSpec |-> IF IsSome(res.uiSpec) THEN Some([Get(res.uiSpec) EXCEPT !.id = 0]) ELSE None,
     designFeedback |-> res.designFeedback,
     accessibilityReport |-> res.accessibilityReport,
     exportPackage |-> res.exportPackage,
     errors |-> res.errors,
     messages |-> [i \in 1..Len(res.messages) |-> [res.messages[i] EXCEPT !.id = 0]]]

Unaffected(res, message) ==
    Unidentified(res) = Unidentified(SoloResult(message, ExportOutcomeOf(res)))

\* C21 as stated: when two runs overlap, the result of each (its
\* specification, reports, errors and logged messages) is what the run
\* returns when it is the only one, whether the second run was started on the
\* same orchestrator or on one of its own.
C21_Original ==
    /\ (pc = "returned" /\ probe.started) => Unaffected(result, userMessage)
    /\ probe.pc = "returned" => Unaffected(probe.result, probe.userMessage)

\* Runs on orchestrators of their own: neither result is affected.
OwnOrchestratorsIsolated ==
    ~probe.shared =>
        /\ pc = "returned" => Unaffected(result, userMessage)
        /\ probe.pc = "returned" => Unaffected(probe.result, probe.userMessage)

StageIndex(agent) == CHOOSE k \in 1..Len(AllStages) : AllStages[k] = agent

\* The stage the run is awaiting.
Awaited ==
    IF pc = "awaitArchitect" THEN "ui-architect"
    ELSE IF pc = "awaitReview" THEN "design-critic"
    ELSE IF pc = "awaitValidate" THEN "accessibility"
    ELSE IF pc = "awaitExport" THEN "export-engineer"
    ELSE "none"

\* The first stage after agent that is not configured off ("none" if there is none).
NextEnabled(agent) ==
    IF StageIndex(agent) < 2 /\ ~options.skipDesignReview THEN "design-critic"
    ELSE IF StageIndex(agent) < 3 /\ ~options.skipAccessibilityCheck THEN "accessibility"
    ELSE IF StageIndex(agent) < 4 /\ options.exportOnSuccess THEN "export-engineer"
    ELSE "none"

\* The specification the run holds once the awaited stage has answered: the
\* one the stage returned if that output is applied, the one held before
\* otherwise.
AppliedOutput ==
    IF pc = "awaitArchitect" THEN pending.data
    ELSE IF pc = "awaitReview"
    THEN IF /\ options.autoApplyDesignImprovements
            /\ IsSome(pending.data)
            /\ Present(Get(pending.data), "improvedUI")
         THEN Some(Get(pending.data).improvedUI) ELSE localUI
    ELSE IF pc = "awaitValidate"
    THEN IF options.autoApplyAccessibilityFixes /\ IsSome(pending.data)
         THEN Some(Get(pending.data).fixedUI) ELSE localUI
    ELSE localUI

\* The step invokes a stage from within the run in flight.
InvokesNext == Awaited # "none" /\ Len(calls') = Len(calls) + 1

\* C22: within one run the stages are invoked in the order ui-architect,
\* design-critic, accessibility, export-engineer, each at most once and each
\* only when every stage invoked before it has returned; a stage configured
\* off is never invoked, and the stage invoked after a stage has returned is
\* the first later stage that is not configured off; each invoked stage is
\* handed the specification returned by the most recent earlier stage whose
\* output was applied.
C22_StagesInOrder ==
    [][/\ \A i, j \in 1..Len(calls') : i < j => StageIndex(calls'[i]) < StageIndex(calls'[j])
       /\ \A i \in 1..Len(returns') : returns'[i].agent = calls'[i]
       /\ Len(returns') = IF pc' \in {"idle", "returned"} THEN Len(calls') ELSE Len(calls') - 1
       /\ options.skipDesignReview => "design-critic" \notin Range(calls')
       /\ options.skipAccessibilityCheck => "accessibility" \notin Range(calls')
       /\ ~options.exportOnSuccess => "export-engineer" \notin Range(calls')
       /\ InvokesNext =>
             /\ calls' = Append(calls, NextEnabled(Awaited))
             /\ returns' = Append(returns, [agent |-> Awaited, success |-> pending.success])
             /\ localUI' = AppliedOutput
             /\ result'.uiSpec = AppliedOutput
             /\ pc' = "awaitReview" => pending' = review(Get(AppliedOutput))
             /\ pc' = "awaitValidate" => pending' = validate(Get(AppliedOutput))
       /\ (pc = "awaitExport" /\ IsSome(result'.exportPackage)) =>
             result'.exportPackage = Some(exportPackageOf(Get(localUI)))]_vars

\* A run of all four stages in which the critique's improvements and the
\* validation's fixes were both applied and changed the specification.
C22_Witness ==
    /\ InRun /\ pc = "returned"
    /\ calls = AllStages
    /\ options.autoApplyDesignImprovements
    /\ IsSome(result.exportPackage)
    /\ IsSome(result.designFeedback)
    /\ \E i \in 1..Len(Get(result.designFeedback).improvements) :
          IsSome(Get(result.designFeedback).improvements[i].proposedProps)
    /\ IsSome(result.accessibilityReport)
    /\ Len(Get(result.accessibilityReport).violations) > 0

Classified == IsSome(probe.request)

ModifyWorded == \E k \in modifyKeywords : Includes(toLowerCase(Get(probe.request)), k)

CreateWorded == \E k \in createKeywords : Includes(toLowerCase(Get(probe.request)), k)

PriorExists == IsSome(probe.prior)

\* C23: for every combination of (modify word, create word, prior
\* specification) the request is classified as modify exactly when a prior
\* specification exists and the request has a modify word or no create word,
\* and as create otherwise; the classifier never returns anything else, so
\* modify is chosen only when a prior specification exists and generation
\* fails with neither UNKNOWN_REQUEST nor NO_EXISTING_UI.
C23_TieBreak ==
    Classified =>
        /\ probe.type \in {"create", "modify"}
        /\ probe.type = "modify" <=> (PriorExists /\ (ModifyWorded \/ ~CreateWorded))
        /\ probe.type = "modify" => PriorExists
        /\ \A i \in 1..Len(probe.response.errors) :
              probe.response.errors[i] \notin {"UNKNOWN_REQUEST", "NO_EXISTING_UI"}
        /\ probe.type = "create" =>
              /\ probe.response.success
              /\ Get(probe.response.data).metadata.version = 1
              /\ Get(probe.response.data).description = Get(probe.request)
        /\ (probe.type = "modify" /\ probe.response.success) =>
              Get(probe.response.data).metadata.version =
                  Get(probe.prior).metadata.version + 1

\* A request with a modify word and a create word, and a prior specification:
\* the prior specification outweighs the wording.
C23_Witness ==
    /\ Classified
    /\ ModifyWorded /\ CreateWorded /\ PriorExists
    /\ probe.type = "modify"
    /\ probe.response.success

\* A patch was applied at an index outside the component list.
PatchedOutOfRange ==
    /\ IsSome(probe.patched)
    /\ Get(probe.patched).index >= Len(probe.uiSpec.components)

\* The stage did not fail and returned the components as they were.
PatchWasNoOp ==
    /\ Get(probe.patched).success
    /\ IsSome(Get(probe.patched).data)
    /\ Get(Get(probe.patched).data).components = probe.uiSpec.components

\* C24 as stated: a property patch at an index out of range is a silent no-op
\* in the critique's improvements, the validation's fixes and the update
\* modifications of the modify path of generation, also on a specification
\* with zero components.
C24_Original == PatchedOutOfRange => PatchWasNoOp

\* The same for the critique's improvements and the validation's fixes only.
OutOfRangeIsNoOpInCritiqueAndValidation ==
    (PatchedOutOfRange /\ Get(probe.patched).stage # "ui-architect") => PatchWasNoOp

IsPrefix(earlier, later) ==
    Len(earlier) <= Len(later) /\ SubSeq(later, 1, Len(earlier)) = earlier

\* The step is a public call that enters the pipeline.
CallStarts == requests' = requests + 1 /\ pc' = "awaitArchitect"

\* The last returned result belongs to the conversation the orchestrator is in.
ReturnedInConversation ==
    pc = "returned" /\ result.conversationId = context.conversationId

\* C25: the message list and the context history of an orchestrator are the
\* same sequence in every state; within a conversation (between two resets)
\* every step leaves the messages logged so far in place and only appends;
\* the list a run returns is the whole log, so the list returned by an
\* earlier run is what the log of a later run of the same conversation starts
\* with, and a prefix of what the later run returns.
C25_AppendOnlyLog ==
    [][/\ messages' = context'.history
       /\ context'.conversationId = context.conversationId => IsPrefix(messages, messages')
       /\ context'.conversationId # context.conversationId => messages' = <<>>
       /\ (pc' = "returned" /\ requests' = requests + 1) => result'.messages = messages'
       /\ (pc' = "returned" /\ pc \notin {"idle", "returned"}) =>
             /\ result'.messages = messages'
             /\ Len(result'.messages) > logStart
       /\ (CallStarts /\ ReturnedInConversation) =>
             /\ logStart' = Len(result.messages)
             /\ result.messages = SubSeq(messages', 1, logStart')]_vars

\* The second run of a conversation has returned: its list extends the list
\* the first run returned.
C25_Witness ==
    /\ pc = "returned"
    /\ requests = 2
    /\ calls # <<>>
    /\ logStart > 0
    /\ messages = context.history
    /\ result.messages = messages
    /\ Len(result.messages) > logStart + 1

ProbeCritiqued == IsSome(probe.critique)

ReadsNullTier(uiSpec) ==
    \E i \in 1..Len(uiSpec.components) :
        /\ uiSpec.components[i].name = "PricingTable"
        /\ Present(uiSpec.components[i].props, "tiers")
        /\ \E t \in 1..Len(uiSpec.components[i].props.tiers) :
              /\ IsNull(uiSpec.components[i].props.tiers[t])
              /\ \A u \in 1..(t - 1) :
                    ~Flag(uiSpec.components[i].props.tiers[u], "featured")

ComponentCount(ui) == Len(Get(ui).components)

\* C27: after any sequence of processRequest, modifyUI and reset calls the
\* current specification, when there is one, has at least one component, and
\* so has every specification generation returns; a run taken as a
\* modification yields at least as many components as the specification it
\* started from, whatever improvements and fixes are applied after it.
C27_NeverEmpty ==
    /\ IsSome(context.currentUI) => ComponentCount(context.currentUI) >= 1
    /\ IsSome(result.uiSpec) => ComponentCount(result.uiSpec) >= 1
    /\ (pc = "awaitArchitect" /\ pending.success) => ComponentCount(pending.data) >= 1
    /\ (Generated /\ IsSome(before)) =>
          \/ ComponentCount(context.currentUI) >= ComponentCount(before)
          \/ ~TakenAsModify

\* A modification that appended a component to a specification of two.
C27_Witness ==
    /\ Generated /\ pc = "returned"
    /\ IsSome(before)
    /\ TakenAsModify
    /\ ComponentCount(before) = 2
    /\ ComponentCount(context.currentUI) = 3

\* Every Button of ui has text and is not icon-only, and every field of every
\* Form of ui has a label.
NamedAndLabelled(ui) ==
    \A i \in 1..Len(ui.components) :
        LET component == ui.components[i] IN
        /\ component.name = "Button" =>
              /\ Text(component.props, "text")
              /\ ~Flag(component.props, "iconOnly")
        /\ component.name = "Form" =>
              /\ Present(component.props, "fields")
              /\ \A f \in 1..Len(component.props.fields) :
                    Text(component.props.fields[f], "label")

\* C28: every specification the orchestrator holds or hands to the validation
\* stage in a sequence of processRequest, modifyUI and reset calls has its
\* Buttons named (text, not icon-only) and its Form fields labelled, whatever
\* modifications, improvements and fixes were applied; the validation of it
\* succeeds with a report without critical violation, so no run halts at the
\* accessibility gate.
C28_GeneratedPassesGate ==
    /\ IsSome(context.currentUI) => NamedAndLabelled(Get(context.currentUI))
    /\ IsSome(localUI) => NamedAndLabelled(Get(localUI))
    /\ pc = "awaitValidate" =>
          /\ pending.success
          /\ ImpactCount(Get(pending.data).report, "critical") = 0
          /\ Get(pending.data).report.passed
          /\ NamedAndLabelled(Get(pending.data).fixedUI)
    /\ ~StageFailed("accessibility")
    /\ (StageReturned("accessibility") /\ options.exportOnSuccess) =>
          "export-engineer" \in Range(calls)

\* Validation is handed a Form and a Button added by a modification.
C28_Witness ==
    /\ pc = "awaitValidate"
    /\ Get(localUI).metadata.version = 2
    /\ \E i \in 1..Len(Get(localUI).components) : Get(localUI).components[i].name = "Form"
    /\ \E i \in 1..Len(Get(localUI).components) : Get(localUI).components[i].name = "Button"
    /\ pending.success

\* The validation stage of the last call failed without producing a report:
\* its internal exception came back as VALIDATION_ERROR.
ValidationFailedWithoutReport ==
    /\ StageFailed("accessibility")
    /\ \E i \in ErrorsOf("accessibility") : result.errors[i].code = "VALIDATION_ERROR"

ReportPassed ==
    IsSome(result.accessibilityReport) /\ Get(result.accessibilityReport).passed

\* C29 as stated: a run that returns success = true with the accessibility
\* check not skipped carries a report whose passed flag is true, and a
\* validation that failed without a report never leads to success = true nor
\* to Export being invoked.
C29_Original ==
    /\ (RunReturned /\ result.success /\ ~options.skipAccessibilityCheck) => ReportPassed
    /\ ValidationFailedWithoutReport =>
          /\ ~result.success
          /\ "export-engineer" \notin Range(calls)

\* C29: a run that returns success = true with the accessibility check not
\* skipped either carries a report whose passed flag is true and no
\* accessibility error, or its validation stage failed without producing a
\* report (VALIDATION_ERROR); a validation that failed without a report
\* leaves the result without a report, never halts the run: Export is invoked
\* when exportOnSuccess is on, and the run returns success = true unless it
\* is cut short by a caught exception.
C29_ReportOrValidationError ==
    /\ (RunReturned /\ result.success /\ ~options.skipAccessibilityCheck) =>
          \/ ReportPassed /\ ErrorsOf("accessibility") = {}
          \/ ValidationFailedWithoutReport
    /\ ValidationFailedWithoutReport =>
          /\ result.accessibilityReport = None
          /\ pc \in {"awaitExport", "returned"}
          /\ options.exportOnSuccess <=> "export-engineer" \in Range(calls)
          /\ RunReturned => (result.success <=> ~CaughtException)

\* A run whose validation failed without a report was exported and returned
\* success = true.
C29_Witness ==
    /\ RunReturned
    /\ ValidationFailedWithoutReport
    /\ ~options.skipAccessibilityCheck
    /\ result.success
    /\ result.accessibilityReport = None
    /\ IsSome(result.exportPackage)

\* A processRequest call (made directly or through modifyUI) has just
\* returned: nothing else was called on the orchestrator since.
JustReturned == RunReturned /\ entry \in {"processRequest", "modifyUI"}

GenerationSucceeded == Len(returns) > 0 /\ returns[1].success

\* C30: when processRequest returns a result that carries a uiSpec,
\* getCurrentUI() is that specification, also when the run ends with
\* success = false (accessibility halt or caught exception); when the result
\* carries no uiSpec the current specification is the one held before the
\* call.  The result carries a uiSpec exactly when generation succeeded, and
\* the current specification is then another one than before the call.
C30_CurrentIsResultSpec ==
    JustReturned =>
        /\ IsSome(result.uiSpec) => getCurrentUI = result.uiSpec
        /\ result.uiSpec = None => getCurrentUI = before
        /\ IsSome(result.uiSpec) <=> GenerationSucceeded
        /\ GenerationSucceeded => getCurrentUI # before

\* A run halted at the accessibility gate replaced the current specification,
\* and so did a run cut short by a caught exception.
C30_Witness ==
    /\ JustReturned
    /\ ~result.success
    /\ IsSome(before)
    /\ IsSome(result.uiSpec)
    /\ getCurrentUI = result.uiSpec
    /\ getCurrentUI # before
    /\ ValidationBlocking \/ CaughtException

====
